---- MODULE Spec2Model ----
(***************************************************************************)
(* Model of the Neo4j connector.                                           *)
(*                                                                         *)
(* Source side (specification Spec): the Source orchestrator               *)
(* (source/source.go) driving the snapshot and the polling iterator of    *)
(* package iterator (Snapshot, Position) against a graph that other        *)
(* clients mutate concurrently.                                            *)
(*                                                                         *)
(* Destination side (specification DestinationSpec): Destination.Write     *)
(* (destination/destination.go) and the Writer (destination/writer)        *)
(* turning records into Cypher statements against a database.              *)
(*                                                                         *)
(* Iterator side (specification IteratorSpec): one iterator of package      *)
(* iterator, statement by statement, under the read helper of the source:  *)
(* HasNext, loadBatch with its managed transaction, the channel            *)
(* s.records, and the select of Next.                                      *)
(*                                                                         *)
(* One run of the source under a host that keeps calling Read             *)
(* (specifications QuietSpec, on a graph nobody mutates, and GrowingSpec,  *)
(* while other clients insert): Spec's actions with weak fairness of Read. *)
(*                                                                         *)
(* An entity is identified by the value of its ordering property (the      *)
(* README requires these values to be unique); `name` stands for the rest  *)
(* of its properties.  A value that was deleted is never used again.       *)
(***************************************************************************)
EXTENDS Integers, Sequences, FiniteSets, TLC

\* ---------------------------------------------------------------- bounds
MaxValue == 3     \* ordering values are 1..MaxValue
MaxBatch == 2     \* batch sizes are 1..MaxBatch
MaxRuns  == 2     \* number of Open calls
MaxReads == 4     \* number of Read calls
MaxRev   == 1     \* number of updates one entity's `name` can take
MaxMutations == 2 \* number of writes other clients make to the graph
MaxEntities == 3  \* entity slots of the destination's database
MaxBatchLen == 2  \* records in one Destination.Write call
MaxCalls == 2     \* calls of the destination
MaxOps == 2       \* database operations whose sessions are followed
MaxAttempts == 2  \* runs of one managed transaction's function
MaxCallsOfRead == 3 \* calls of the read helper on the iterator under test

Values == 1..MaxValue

EntityIds == 1..MaxEntities

VARIABLES
    graph,            \* [Values -> Absent, Deleted or Present(name)]
    config,           \* Source.config: [Snapshot, BatchSize]
    driver,           \* Source.driver: "nil", "open" or "closed"
    snapshot,         \* Source.snapshot: an iterator or NilIterator
    pollingSnapshot,  \* Source.pollingSnapshot: an iterator or NilIterator
    pc,               \* "idle", or "opening" between Open's two constructors
    openPos,          \* the position Open parsed, while pc = "opening"
    emitted,          \* history: the records Read has returned, in order
    lastRead,         \* history: outcome of the latest Read of this run
    runs,             \* history: number of Open calls so far
    reads,            \* history: number of Read calls so far
    mutations,        \* history: number of writes by other clients so far
    openedWith,       \* history: the sdk.Position the latest Open was given
    born,             \* history: the phase of this run an entity was inserted in
    db,               \* destination: the database, [EntityIds -> entity]
    entityType,       \* destination: Writer.entityType
    call,             \* history: the latest call of the destination
    calls,            \* history: number of calls of the destination so far
    task,             \* sessions: the database operation in progress
    sessions,         \* sessions: number of open sessions of the driver
    finished,         \* history: the database operation that returned last
    ops,              \* history: number of database operations so far
    iter,             \* iterator side: the *Snapshot under test
    rd,               \* iterator side: the call of read in progress
    ret               \* history: what the latest call of read returned

srcVars == <<graph, config, driver, snapshot, pollingSnapshot, pc, openPos,
             emitted, lastRead, runs, reads, mutations, openedWith, born>>

dstVars == <<db, entityType, call, calls>>

sesVars == <<task, sessions, finished, ops>>

itVars == <<iter, rd, ret>>

vars == <<graph, config, driver, snapshot, pollingSnapshot, pc, openPos,
          emitted, lastRead, runs, reads, mutations, openedWith, born,
          db, entityType, call, calls, task, sessions, finished, ops,
          iter, rd, ret>>

\* ------------------------------------------------------------ the graph
Absent == [state |-> "absent", name |-> 0]

Deleted == [state |-> "deleted", name |-> 0]

Present(name) == [state |-> "present", name |-> name]

Exists(g, v) == g[v].state = "present"

Entities(g) == {v \in Values : Exists(g, v)}

Max(S) == CHOOSE x \in S : \A y \in S : y <= x

Min2(a, b) == IF a <= b THEN a ELSE b

\* ---------------------------------------------------- values, positions
\* A Go `any` holding an ordering value: nil, an int64 or a float64.
NilValue == [kind |-> "nil", num |-> 0]

IsNil(v) == v.kind = "nil"

\* The value the driver returns for the ordering property of entity v: a
\* Cypher Integer arrives as int64.
DBValue(v) == [kind |-> "int64", num |-> v]

ModeSnapshot == "snapshot"
ModeSnapshotPolling == "snapshot_polling"

\* *Position; NilPosition is the nil pointer.
NilPosition == [nil |-> TRUE, Mode |-> "", LastProcessedValue |-> NilValue,
                MaxElement |-> NilValue]

Position(mode, lpv, maxElement) ==
    [nil |-> FALSE, Mode |-> mode, LastProcessedValue |-> lpv,
     MaxElement |-> maxElement]

\* JSON encoding of an `any`: null or a number; a float64 with an integral
\* value and an int64 print the same digits.
JSONNull == [json |-> "null", num |-> 0]
JSONOmitted == [json |-> "omitted", num |-> 0]

JSONOf(v) == IF IsNil(v) THEN JSONNull ELSE [json |-> "number", num |-> v.num]

\* encoding/json decodes every number into an `any` as float64.
JSONTo(j) == IF j.json = "number" THEN [kind |-> "float64", num |-> j.num]
             ELSE NilValue

\* sdk.Position: nil, or the JSON object MarshalSDKPosition wrote.
NilSDKPosition == [nil |-> TRUE, mode |-> "", lastProcessedValue |-> JSONNull,
                   maxElement |-> JSONOmitted]

MarshalSDKPosition(p) ==
    [nil |-> FALSE, mode |-> p.Mode,
     lastProcessedValue |-> JSONOf(p.LastProcessedValue),
     maxElement |-> IF IsNil(p.MaxElement) THEN JSONOmitted
                    ELSE JSONOf(p.MaxElement)]

\* Returns the nil pointer (with ErrNilSDKPosition, which Open ignores) for a
\* nil sdk.Position.
ParsePosition(sdkPosition) ==
    IF sdkPosition.nil THEN NilPosition
    ELSE Position(sdkPosition.mode, JSONTo(sdkPosition.lastProcessedValue),
                  JSONTo(sdkPosition.maxElement))

\* ------------------------------------------------------------ iterators
NilIterator == [nil |-> TRUE, orderingPropertyMaxValue |-> NilValue,
                batchSize |-> 0, position |-> NilPosition, records |-> <<>>,
                polling |-> FALSE]

\* MATCH ... RETURN obj.p ORDER BY obj.p DESC LIMIT 1, then result.Single:
\* no row is errNoElements, which both constructors swallow, leaving nil.
getMaxPropertyValue(g) ==
    IF Entities(g) = {} THEN NilValue ELSE DBValue(Max(Entities(g)))

\* NewSnapshot without the case for a resumed position: the maximum is
\* looked up again at every construction.
NewSnapshotQueriesAgain(g, batchSize, position) ==
    [nil |-> FALSE, orderingPropertyMaxValue |-> getMaxPropertyValue(g),
     batchSize |-> batchSize, position |-> position, records |-> <<>>,
     polling |-> FALSE]

NewSnapshot(g, batchSize, position) ==
    [nil |-> FALSE,
     orderingPropertyMaxValue |->
         IF ~position.nil /\ ~IsNil(position.MaxElement)
         THEN position.MaxElement ELSE getMaxPropertyValue(g),
     batchSize |-> batchSize, position |-> position, records |-> <<>>,
     polling |-> FALSE]

NewPollingSnapshot(g, batchSize, position) ==
    [nil |-> FALSE, orderingPropertyMaxValue |-> NilValue,
     batchSize |-> batchSize,
     position |-> IF position.nil
                  THEN Position(ModeSnapshotPolling, getMaxPropertyValue(g),
                                NilValue)
                  ELSE position,
     records |-> <<>>, polling |-> TRUE]

\* The WHERE clause loadBatch builds, as the list of its parts.
whereClause(it) ==
    LET hasMax == ~IsNil(it.orderingPropertyMaxValue)
        hasLPV == ~it.position.nil /\ ~IsNil(it.position.LastProcessedValue)
    IN  (IF hasMax THEN <<"opmvLTE">> ELSE <<>>)
        \o (IF hasMax /\ hasLPV THEN <<"AND">> ELSE <<>>)
        \o (IF hasLPV THEN <<"opvGT">> ELSE <<>>)

\* Cypher needs a predicate after WHERE: "MATCH (obj:L) WHERE  RETURN obj
\* LIMIT n" is rejected by the database and tx.Run fails.
QueryValid(it) == whereClause(it) # <<>>

HasPart(w, part) == \E i \in 1..Len(w) : w[i] = part

\* The batch query without its upper bound: the "<= max" predicate has no
\* effect.
MatchingUnbounded(g, it) ==
    LET w == whereClause(it)
    IN  {v \in Entities(g) :
            HasPart(w, "opvGT") => v > it.position.LastProcessedValue.num}

\* The batch query with ">=" for ">" in its cursor predicate.
MatchingFromCursor(g, it) ==
    LET w == whereClause(it)
    IN  {v \in Entities(g) :
            /\ HasPart(w, "opmvLTE") => v <= it.orderingPropertyMaxValue.num
            /\ HasPart(w, "opvGT") => v >= it.position.LastProcessedValue.num}

\* The entities the batch query matches.
Matching(g, it) ==
    LET w == whereClause(it)
    IN  {v \in Entities(g) :
            /\ HasPart(w, "opmvLTE") => v <= it.orderingPropertyMaxValue.num
            /\ HasPart(w, "opvGT") => v > it.position.LastProcessedValue.num}

Element(g, v) == [id |-> v, name |-> g[v].name]

\* The query has no ORDER BY: the database returns any LIMIT-many matching
\* rows, in any order.
Batches(g, it) ==
    IF it.nil \/ Len(it.records) > 0 \/ ~QueryValid(it) THEN {<<>>}
    ELSE LET M == Matching(g, it)
             k == Min2(it.batchSize, Cardinality(M))
         IN  {[i \in 1..k |-> Element(g, s[i])] :
                 s \in {t \in [1..k -> M] :
                          \A i, j \in 1..k : i # j => t[i] # t[j]}}

NoRecord == [Operation |-> "", Position |-> NilSDKPosition, value |-> 0,
             name |-> 0, polling |-> FALSE, run |-> 0]

\* Next without the `if s.polling` that selects the position's mode.
NextModeSnapshotOnly(it, run) ==
    LET record == Head(it.records)
        position == Position(ModeSnapshot, DBValue(record.id),
                             it.orderingPropertyMaxValue)
    IN  [it  |-> [it EXCEPT !.records = Tail(it.records),
                            !.position = position],
         res |-> "record",
         rec |-> [Operation |-> IF it.polling THEN "create" ELSE "snapshot",
                  Position |-> MarshalSDKPosition(position),
                  value |-> record.id, name |-> record.name,
                  polling |-> it.polling, run |-> run]]

\* Next without the assignment s.position = position.
NextKeepsPosition(it, run) ==
    LET record == Head(it.records)
        mode == IF it.polling THEN ModeSnapshotPolling ELSE ModeSnapshot
        position == Position(mode, DBValue(record.id),
                             it.orderingPropertyMaxValue)
    IN  [it  |-> [it EXCEPT !.records = Tail(it.records)],
         res |-> "record",
         rec |-> [Operation |-> IF it.polling THEN "create" ELSE "snapshot",
                  Position |-> MarshalSDKPosition(position),
                  value |-> record.id, name |-> record.name,
                  polling |-> it.polling, run |-> run]]

\* Next: dequeue one element, advance the position, build the record.
Next(it, run) ==
    LET record == Head(it.records)
        mode == IF it.polling THEN ModeSnapshotPolling ELSE ModeSnapshot
        position == Position(mode, DBValue(record.id),
                             it.orderingPropertyMaxValue)
    IN  [it  |-> [it EXCEPT !.records = Tail(it.records),
                            !.position = position],
         res |-> "record",
         rec |-> [Operation |-> IF it.polling THEN "create" ELSE "snapshot",
                  Position |-> MarshalSDKPosition(position),
                  value |-> record.id, name |-> record.name,
                  polling |-> it.polling, run |-> run]]

\* read(ctx, iterator): HasNext (loading `batch` when the queue is empty),
\* then Next.  res is "record", "backoff" (sdk.ErrBackoffRetry) or "error".
read(it, batch, run) ==
    IF Len(it.records) > 0 THEN Next(it, run)
    ELSE IF ~QueryValid(it)
         THEN [it |-> it, res |-> "error", rec |-> NoRecord]
    ELSE IF Len(batch) = 0
         THEN [it |-> it, res |-> "backoff", rec |-> NoRecord]
    ELSE Next([it EXCEPT !.records = batch], run)

\* Source.Read with the cases of its switch in the other order: the polling
\* iterator is consulted first and the snapshot iterator when it has nothing.
SourceReadPollingFirst(snap, poll, b1, b2, run) ==
    IF ~poll.nil
    THEN LET p == read(poll, b2, run)
         IN  IF p.res = "backoff" /\ ~snap.nil
             THEN LET s == read(snap, b1, run)
                  IN  [snapshot |-> s.it, pollingSnapshot |-> p.it,
                       res |-> s.res, rec |-> s.rec]
             ELSE [snapshot |-> snap, pollingSnapshot |-> p.it,
                   res |-> p.res, rec |-> p.rec]
    ELSE [snapshot |-> snap, pollingSnapshot |-> poll, res |-> "error",
          rec |-> NoRecord]

\* Source.Read without the errors.Is test: every error of the snapshot
\* iterator is taken for the retry-later signal.
SourceReadFallsThroughOnError(snap, poll, b1, b2, run) ==
    IF ~snap.nil
    THEN LET s == read(snap, b1, run)
         IN  IF s.res # "record"
             THEN LET p == read(poll, b2, run)
                  IN  [snapshot |-> NilIterator, pollingSnapshot |-> p.it,
                       res |-> p.res, rec |-> p.rec]
             ELSE [snapshot |-> s.it, pollingSnapshot |-> poll,
                   res |-> "record", rec |-> s.rec]
    ELSE IF ~poll.nil
    THEN LET p == read(poll, b2, run)
         IN  [snapshot |-> snap, pollingSnapshot |-> p.it,
              res |-> p.res, rec |-> p.rec]
    ELSE [snapshot |-> snap, pollingSnapshot |-> poll, res |-> "error",
          rec |-> NoRecord]

\* Source.Read on the two iterator fields; b1 and b2 are the rows the
\* database returns if the snapshot, and then the polling, iterator loads a
\* batch.  errNoIterator is an "error".
SourceRead(snap, poll, b1, b2, run) ==
    IF ~snap.nil
    THEN LET s == read(snap, b1, run)
         IN  IF s.res = "error"
             THEN [snapshot |-> snap, pollingSnapshot |-> poll,
                   res |-> "error", rec |-> NoRecord]
             ELSE IF s.res = "backoff"
             THEN LET p == read(poll, b2, run)
                  IN  [snapshot |-> NilIterator, pollingSnapshot |-> p.it,
                       res |-> p.res, rec |-> p.rec]
             ELSE [snapshot |-> s.it, pollingSnapshot |-> poll,
                   res |-> "record", rec |-> s.rec]
    ELSE IF ~poll.nil
    THEN LET p == read(poll, b2, run)
         IN  [snapshot |-> snap, pollingSnapshot |-> p.it,
              res |-> p.res, rec |-> p.rec]
    ELSE [snapshot |-> snap, pollingSnapshot |-> poll, res |-> "error",
          rec |-> NoRecord]

\* The condition under which Open constructs the snapshot iterator.
SnapshotDue(cfg, position) ==
    cfg.Snapshot /\ (position.nil \/ position.Mode = ModeSnapshot)

\* ------------------------------------------- the destination, not in use
\* A property map with no entry.
EmptyMap == [n \in {} |-> 0]

\* A slot of the destination's database that holds no entity.
NoEntity == [kind |-> "none", label |-> "", props |-> EmptyMap,
             src |-> 0, trgt |-> 0]

EntityTypeNode == "node"
EntityTypeRelationship == "relationship"

NoErr == ""

\* The destination has not been called.
NoCall == [op |-> "none", records |-> <<>>, n |-> 0, err |-> NoErr,
           attempts |-> <<>>, changed |-> {}]

\* The state of the destination side while the source is modelled.
DestinationIdle ==
    /\ db = [i \in EntityIds |-> NoEntity]
    /\ entityType = EntityTypeNode
    /\ call = NoCall
    /\ calls = 0

\* ------------------------------------- database operations, none running
\* No database operation is in progress.
IdleTask == [name |-> "none", at |-> 0, err |-> NoErr, deferred |-> FALSE,
             opened |-> 0, closed |-> 0, tx |-> "none", transactions |-> 0,
             submitted |-> 0, txFailed |-> FALSE]

\* No database operation has returned.
NoneFinished == [name |-> "none", err |-> NoErr, opened |-> 0, closed |-> 0,
                 transactions |-> 0, submitted |-> 0, txFailed |-> FALSE]

\* The state of the session bookkeeping while the operations themselves
\* are modelled as single steps.
SessionsIdle ==
    /\ task = IdleTask
    /\ sessions = 0
    /\ finished = NoneFinished
    /\ ops = 0

\* ------------------------------------------ the iterator side, not in use
\* No iterator is under test, no call of read is in progress (n counts the
\* calls made; after is history, the cursor the latest batch query ran
\* with) and none has returned.
IteratorIdle ==
    /\ iter = [s |-> NilIterator, configured |-> <<>>, keyProperties |-> <<>>]
    /\ rd = [pc |-> "idle", ctx |-> "live", rows |-> <<>>, attempts |-> 0,
             n |-> 0, after |-> NilValue]
    /\ ret = [res |-> "none", rec |-> NoRecord]

\* ----------------------------------------------------------------- Init
\* born[v] of an entity that was not inserted during the current run.
NotBorn == [phase |-> "none", above |-> FALSE]

Init ==
    /\ graph \in [Values -> {Absent, Present(0)}]
    /\ config = [Snapshot |-> TRUE, BatchSize |-> MaxBatch]
    /\ driver = "nil"
    /\ snapshot = NilIterator
    /\ pollingSnapshot = NilIterator
    /\ pc = "idle"
    /\ openPos = NilPosition
    /\ emitted = <<>>
    /\ lastRead = "none"
    /\ runs = 0
    /\ reads = 0
    /\ mutations = 0
    /\ openedWith = NilSDKPosition
    /\ born = [v \in Values |-> NotBorn]
    /\ DestinationIdle
    /\ SessionsIdle
    /\ IteratorIdle

\* -------------------------------------------------------------- actions
\* Source.Configure: the host sets the options before it opens the source.
Configure(snap, batchSize) ==
    /\ pc = "idle" /\ driver # "open"
    /\ config' = [Snapshot |-> snap, BatchSize |-> batchSize]
    /\ UNCHANGED <<graph, driver, snapshot, pollingSnapshot, pc, openPos,
                   emitted, lastRead, runs, reads, mutations, openedWith,
                   born>>
    /\ UNCHANGED dstVars
    /\ UNCHANGED sesVars
    /\ UNCHANGED itVars

\* The positions the host can hand to Open: none, or one it received with
\* an earlier record.
HostPositions == {NilSDKPosition} \cup
                 {emitted[i].Position : i \in 1..Len(emitted)}

\* Source.Open up to and including NewPollingSnapshot.
OpenPolling(sdkPosition) ==
    /\ pc = "idle" /\ driver # "open" /\ runs < MaxRuns
    /\ LET position == ParsePosition(sdkPosition)
       IN  /\ openPos' = position
           /\ pollingSnapshot' =
                  NewPollingSnapshot(graph, config.BatchSize, position)
    /\ driver' = "open"
    /\ pc' = "opening"
    /\ runs' = runs + 1
    /\ lastRead' = "none"
    /\ openedWith' = sdkPosition
    /\ born' = [v \in Values |-> NotBorn]
    /\ UNCHANGED <<graph, config, snapshot, emitted, reads, mutations>>
    /\ UNCHANGED dstVars
    /\ UNCHANGED sesVars
    /\ UNCHANGED itVars

\* The rest of Source.Open: NewSnapshot when the snapshot is due.
OpenSnapshot ==
    /\ pc = "opening"
    /\ snapshot' = IF SnapshotDue(config, openPos)
                   THEN NewSnapshot(graph, config.BatchSize, openPos)
                   ELSE snapshot
    /\ pc' = "idle"
    /\ openPos' = NilPosition
    /\ UNCHANGED <<graph, config, driver, pollingSnapshot, emitted, lastRead,
                   runs, reads, mutations, openedWith, born>>
    /\ UNCHANGED dstVars
    /\ UNCHANGED sesVars
    /\ UNCHANGED itVars

\* Source.Read.
Read ==
    /\ pc = "idle" /\ driver = "open" /\ reads < MaxReads
    /\ reads' = reads + 1
    /\ \E b1 \in Batches(graph, snapshot),
          b2 \in Batches(graph, pollingSnapshot) :
         LET r == SourceRead(snapshot, pollingSnapshot, b1, b2, runs)
         IN  /\ snapshot' = r.snapshot
             /\ pollingSnapshot' = r.pollingSnapshot
             /\ lastRead' = r.res
             /\ emitted' = IF r.res = "record" THEN Append(emitted, r.rec)
                           ELSE emitted
    /\ UNCHANGED <<graph, config, driver, pc, openPos, runs, mutations,
                   openedWith, born>>
    /\ UNCHANGED dstVars
    /\ UNCHANGED sesVars
    /\ UNCHANGED itVars

\* Source.Teardown closes the driver and leaves the iterators in place.
Teardown ==
    /\ pc = "idle" /\ driver = "open"
    /\ driver' = "closed"
    /\ UNCHANGED <<graph, config, snapshot, pollingSnapshot, pc, openPos,
                   emitted, lastRead, runs, reads, mutations, openedWith,
                   born>>
    /\ UNCHANGED dstVars
    /\ UNCHANGED sesVars
    /\ UNCHANGED itVars

\* The phase the source is in.
Phase == IF driver # "open" THEN "closed"
         ELSE IF pc = "opening" THEN "opening"
         ELSE IF ~snapshot.nil THEN "snapshot"
         ELSE "polling"

\* The ordering values the source has emitted or holds: in a record it
\* returned, in a cursor or bound of an iterator, or in a pending queue.
Captured ==
    LET held(it) == {it.position.LastProcessedValue.num,
                     it.orderingPropertyMaxValue.num}
                    \cup {it.records[i].id : i \in 1..Len(it.records)}
    IN  {emitted[i].value : i \in 1..Len(emitted)}
        \cup held(snapshot) \cup held(pollingSnapshot)

\* Other clients of the database.
Insert(v) ==
    /\ mutations < MaxMutations
    /\ graph[v] = Absent
    /\ graph' = [graph EXCEPT ![v] = Present(0)]
    /\ born' = IF Phase = "closed" THEN born
               ELSE [born EXCEPT ![v] =
                        [phase |-> Phase,
                         above |-> Phase = "polling"
                                   /\ \A c \in Captured : v > c]]
    /\ mutations' = mutations + 1
    /\ UNCHANGED <<config, driver, snapshot, pollingSnapshot, pc, openPos,
                   emitted, lastRead, runs, reads, openedWith>>
    /\ UNCHANGED dstVars
    /\ UNCHANGED sesVars
    /\ UNCHANGED itVars

Update(v) ==
    /\ mutations < MaxMutations
    /\ Exists(graph, v) /\ graph[v].name < MaxRev
    /\ graph' = [graph EXCEPT ![v] = Present(@.name + 1)]
    /\ mutations' = mutations + 1
    /\ UNCHANGED <<config, driver, snapshot, pollingSnapshot, pc, openPos,
                   emitted, lastRead, runs, reads, openedWith, born>>
    /\ UNCHANGED dstVars
    /\ UNCHANGED sesVars
    /\ UNCHANGED itVars

Delete(v) ==
    /\ mutations < MaxMutations
    /\ Exists(graph, v)
    /\ graph' = [graph EXCEPT ![v] = Deleted]
    /\ mutations' = mutations + 1
    /\ UNCHANGED <<config, driver, snapshot, pollingSnapshot, pc, openPos,
                   emitted, lastRead, runs, reads, openedWith, born>>
    /\ UNCHANGED dstVars
    /\ UNCHANGED sesVars
    /\ UNCHANGED itVars

DoConfigure == \E snap \in BOOLEAN, b \in 1..MaxBatch : Configure(snap, b)
DoOpen == \E sp \in HostPositions : OpenPolling(sp)
DoInsert == \E v \in Values : Insert(v)
DoUpdate == \E v \in Values : Update(v)
DoDelete == \E v \in Values : Delete(v)

SpecNext ==
    \/ DoConfigure
    \/ DoOpen
    \/ OpenSnapshot
    \/ Read
    \/ Teardown
    \/ DoInsert
    \/ DoUpdate
    \/ DoDelete

Spec == Init /\ [][SpecNext]_vars

\* ------------------------------------ one run on a graph nobody mutates
\* Source.Read as the host calls it for as long as the source is open: the
\* calls are not counted.
ReadRepeatedly ==
    /\ pc = "idle" /\ driver = "open"
    /\ \E b1 \in Batches(graph, snapshot),
          b2 \in Batches(graph, pollingSnapshot) :
         LET r == SourceRead(snapshot, pollingSnapshot, b1, b2, runs)
         IN  /\ snapshot' = r.snapshot
             /\ pollingSnapshot' = r.pollingSnapshot
             /\ lastRead' = r.res
             /\ emitted' = IF r.res = "record" THEN Append(emitted, r.rec)
                           ELSE emitted
    /\ UNCHANGED <<graph, config, driver, pc, openPos, runs, reads,
                   mutations, openedWith, born>>
    /\ UNCHANGED dstVars
    /\ UNCHANGED sesVars
    /\ UNCHANGED itVars

\* Configure, Open and then Read after Read, with no other client of the
\* database and no Teardown.
QuietNext ==
    \/ DoConfigure
    \/ DoOpen
    \/ OpenSnapshot
    \/ ReadRepeatedly

\* The host finishes an Open it started and keeps calling Read.
QuietSpec ==
    /\ Init
    /\ [][QuietNext]_vars
    /\ WF_vars(OpenSnapshot)
    /\ WF_vars(ReadRepeatedly)

\* ------------------------------- one run while other clients insert
\* As QuietNext, with other clients inserting entities at any time.
GrowingNext ==
    \/ DoConfigure
    \/ DoOpen
    \/ OpenSnapshot
    \/ ReadRepeatedly
    \/ DoInsert

GrowingSpec ==
    /\ Init
    /\ [][GrowingNext]_vars
    /\ WF_vars(OpenSnapshot)
    /\ WF_vars(ReadRepeatedly)

\* ================================================= the destination side
\* ------------------------------------------------------ values and maps
\* A JSON value as the writer sees it after json.Unmarshal: a string, or an
\* object with the fields of schema.Node.
Str(s) == [type |-> "string", str |-> s, labels |-> "", key |-> EmptyMap]

\* {"labels": [labels], "key": key}
NodeObject(labels, key) ==
    [type |-> "object", str |-> "", labels |-> labels, key |-> key]

sourceNodeField == "sourceNode"
targetNodeField == "targetNode"

\* The map m without the field name.
MapDelete(m, name) == [n \in DOMAIN m \ {name} |-> m[n]]

\* The map m with the entries of extra whose names m does not hold.
MapMergeAbsent(m, extra) ==
    [n \in DOMAIN m \cup DOMAIN extra |->
        IF n \in DOMAIN m THEN m[n] ELSE extra[n]]

\* opencdc.RawData: no bytes, bytes that are not JSON, the JSON null, or a
\* JSON object.
RawEmpty == [raw |-> "empty", fields |-> EmptyMap]
RawGarbage == [raw |-> "garbage", fields |-> EmptyMap]
RawNull == [raw |-> "null", fields |-> EmptyMap]
RawObject(fields) == [raw |-> "object", fields |-> fields]

\* ---------------------------------------------------------------- errors
ErrEmptyRawData == "empty raw data"
ErrUnsupportedEntityType == "unsupported entity type"
ErrEmptySourceNode == "empty source node"
ErrEmptyTargetNode == "empty target node"
ErrUnmarshal == "unmarshal raw data"
ErrDecodeSourceNode == "decode source node"
ErrDecodeTargetNode == "decode target node"
ErrExecuteWrite == "execute write"

\* ---------------------------------------------------------- the database
\* Writer.entityLabels, and a label the writer is not configured with.
EntityLabels == "Person"
OtherLabels == "Other"

NodeEntity(label, props) ==
    [kind |-> "node", label |-> label, props |-> props, src |-> 0, trgt |-> 0]

RelationshipEntity(label, props, src, trgt) ==
    [kind |-> "relationship", label |-> label, props |-> props,
     src |-> src, trgt |-> trgt]

FreeIds(d) == {i \in EntityIds : d[i] = NoEntity}

\* ------------------------------------------------------- Cypher clauses
\* A property clause maps each property name to the name of the parameter
\* that holds its value, the text after "$": prefix + name.
cypherMatchProperties(properties, interpolationPrefix) ==
    [n \in DOMAIN properties |-> interpolationPrefix \o n]

cypherSetProperties(properties, key) ==
    [n \in DOMAIN properties \ DOMAIN key |-> n]

\* The parameters of a statement: the map properties itself goes to tx.Run.
Params(properties) == [p \in DOMAIN properties |-> properties[p]]

\* createRelationship's two loops left out: the parameter map holds the
\* relationship's own properties only.
WithPrefixedLeftOut(params, interpolationPrefix, key) == params

\* ... with the entries of key under the prefixed names, where the map has
\* no entry of that name yet.
WithPrefixed(params, interpolationPrefix, key) ==
    [p \in DOMAIN params \cup {interpolationPrefix \o n : n \in DOMAIN key}
        |-> IF p \in DOMAIN params THEN params[p]
            ELSE key[CHOOSE n \in DOMAIN key : interpolationPrefix \o n = p]]

NoClause == [n \in {} |-> ""]

Statement(template, labels, match, set) ==
    [template |-> template, labels |-> labels, match |-> match, set |-> set,
     srcLabels |-> "", srcMatch |-> NoClause,
     trgtLabels |-> "", trgtMatch |-> NoClause]

\* ------------------------------------------- the database runs a statement
\* Entity e is of the kind and labels of the pattern and holds each
\* property of the pattern's map with the parameter's value.
PatternMatches(e, kind, labels, match, params) ==
    /\ e.kind = kind
    /\ e.label = labels
    /\ \A n \in DOMAIN match :
          /\ match[n] \in DOMAIN params
          /\ n \in DOMAIN e.props
          /\ e.props[n] = params[match[n]]

Matched(d, kind, labels, match, params) ==
    {i \in EntityIds : PatternMatches(d[i], kind, labels, match, params)}

\* A property value the database stores: no nested object.
Storable(clause, params) ==
    \A n \in DOMAIN clause : params[clause[n]].type = "string"

PropsOf(clause, params) == [n \in DOMAIN clause |-> params[clause[n]]]

Outcome(d, err) == [db |-> d, err |-> err, overflow |-> FALSE]

Overflow(d) == [db |-> d, err |-> NoErr, overflow |-> TRUE]

\* CREATE (obj:labels {match})
RunCreateNode(d, q, params) ==
    IF ~Storable(q.match, params) THEN Outcome(d, ErrExecuteWrite)
    ELSE IF FreeIds(d) = {} THEN Overflow(d)
    ELSE LET id == CHOOSE i \in FreeIds(d) : \A j \in FreeIds(d) : i <= j
         IN  Outcome([d EXCEPT ![id] =
                          NodeEntity(q.labels, PropsOf(q.match, params))],
                     NoErr)

\* MATCH (src:..{..}) MATCH (trgt:..{..}) CREATE (src)-[obj:labels {match}]->(trgt)
RunCreateRelationship(d, q, params) ==
    LET srcs == Matched(d, "node", q.srcLabels, q.srcMatch, params)
        trgts == Matched(d, "node", q.trgtLabels, q.trgtMatch, params)
        pairs == srcs \X trgts
    IN
    IF pairs = {} THEN Outcome(d, NoErr)
    ELSE IF ~Storable(q.match, params) THEN Outcome(d, ErrExecuteWrite)
    ELSE IF Cardinality(FreeIds(d)) < Cardinality(pairs) THEN Overflow(d)
    ELSE LET slot == CHOOSE f \in [pairs -> FreeIds(d)] :
                        \A x, y \in pairs : x # y => f[x] # f[y]
             made == {slot[x] : x \in pairs}
             pairOf(i) == CHOOSE x \in pairs : slot[x] = i
         IN  Outcome([i \in EntityIds |->
                         IF i \in made
                         THEN RelationshipEntity(q.labels,
                                  PropsOf(q.match, params),
                                  pairOf(i)[1], pairOf(i)[2])
                         ELSE d[i]],
                     NoErr)

\* MATCH (obj:labels {match}) SET set, for nodes or for relationships
RunUpdate(d, kind, q, params) ==
    IF DOMAIN q.set = {} THEN Outcome(d, ErrExecuteWrite)
    ELSE LET hit == Matched(d, kind, q.labels, q.match, params)
         IN  IF hit # {} /\ ~Storable(q.set, params)
             THEN Outcome(d, ErrExecuteWrite)
             ELSE Outcome([i \in EntityIds |->
                             IF i \in hit
                             THEN [d[i] EXCEPT !.props =
                                     [n \in DOMAIN d[i].props \cup DOMAIN q.set
                                        |-> IF n \in DOMAIN q.set
                                            THEN params[q.set[n]]
                                            ELSE d[i].props[n]]]
                             ELSE d[i]],
                          NoErr)

\* MATCH (obj:labels {match}) DELETE obj, for nodes or for relationships;
\* the database refuses to delete a node that still has relationships.
RunDelete(d, kind, q, params) ==
    LET hit == Matched(d, kind, q.labels, q.match, params)
        attached == /\ kind = "node"
                    /\ \E i \in EntityIds :
                          /\ d[i].kind = "relationship"
                          /\ (d[i].src \in hit \/ d[i].trgt \in hit)
    IN  IF attached THEN Outcome(d, ErrExecuteWrite)
        ELSE Outcome([i \in EntityIds |-> IF i \in hit THEN NoEntity ELSE d[i]],
                     NoErr)

\* tx.Run of one statement with its parameters, in its own transaction.
executeWriteQuery(d, q, params) ==
    CASE q.template = "createNode" -> RunCreateNode(d, q, params)
      [] q.template = "createRelationship" -> RunCreateRelationship(d, q, params)
      [] q.template = "updateNode" -> RunUpdate(d, "node", q, params)
      [] q.template = "updateRelationship" ->
             RunUpdate(d, "relationship", q, params)
      [] q.template = "deleteNode" -> RunDelete(d, "node", q, params)
      [] q.template = "deleteRelationship" ->
             RunDelete(d, "relationship", q, params)

\* ------------------------------------------------------------ the writer
\* A record the host hands over: its operation, its key and the `after`
\* state of its payload, both as raw data.
Record(operation, key, payload) ==
    [Operation |-> operation, Key |-> key, Payload |-> payload]

\* structurizeRawData as it would be without its check for empty data:
\* json.Unmarshal then fails on the empty input.
structurizeRawDataUnchecked(rawData) ==
    IF rawData.raw \in {"empty", "garbage"}
    THEN [err |-> ErrUnmarshal, data |-> EmptyMap]
    ELSE [err |-> NoErr, data |-> rawData.fields]

structurizeRawData(rawData) ==
    IF rawData.raw = "empty"
    THEN [err |-> ErrEmptyRawData, data |-> EmptyMap]
    ELSE IF rawData.raw = "garbage"
    THEN [err |-> ErrUnmarshal, data |-> EmptyMap]
    ELSE [err |-> NoErr, data |-> rawData.fields]

\* What one handler call did: the database it leaves, its error, the
\* handler that ran and the statements it sent to the database, with the
\* parameter map that went with them.
Failed(d, handler, err) ==
    [db |-> d, err |-> err, overflow |-> FALSE, handler |-> handler,
     statements |-> <<>>, params |-> EmptyMap]

Ran(handler, q, params, out) ==
    [db |-> out.db, err |-> out.err, overflow |-> out.overflow,
     handler |-> handler, statements |-> <<q>>, params |-> params]

createNode(d, record) ==
    LET p == structurizeRawData(record.Payload)
    IN  IF p.err # NoErr THEN Failed(d, "handleCreate", p.err)
        ELSE LET q == Statement("createNode", EntityLabels,
                                cypherMatchProperties(p.data, ""), NoClause)
             IN  Ran("handleCreate", q, Params(p.data),
                     executeWriteQuery(d, q, Params(p.data)))

\* mapstructure.Decode of a payload field into a schema.Node.
DecodeNode(v) ==
    IF v.type = "object"
    THEN [ok |-> TRUE, Labels |-> v.labels, Key |-> v.key]
    ELSE [ok |-> FALSE, Labels |-> "", Key |-> EmptyMap]

\* sourceTargetNodesFromProperties as it would be if the check for the
\* target node returned the error of the source node.
sourceTargetNodesSameError(properties) ==
    LET none == [ok |-> FALSE, Labels |-> "", Key |-> EmptyMap]
        fail(err) == [err |-> err, sourceNode |-> none, targetNode |-> none,
                      properties |-> properties]
    IN  IF sourceNodeField \notin DOMAIN properties
        THEN fail(ErrEmptySourceNode)
        ELSE IF ~DecodeNode(properties[sourceNodeField]).ok
        THEN fail(ErrDecodeSourceNode)
        ELSE IF targetNodeField \notin DOMAIN properties
        THEN fail(ErrEmptySourceNode)
        ELSE IF ~DecodeNode(properties[targetNodeField]).ok
        THEN fail(ErrDecodeTargetNode)
        ELSE [err |-> NoErr,
              sourceNode |-> DecodeNode(properties[sourceNodeField]),
              targetNode |-> DecodeNode(properties[targetNodeField]),
              properties |-> MapDelete(MapDelete(properties, sourceNodeField),
                                       targetNodeField)]

\* sourceTargetNodesFromProperties without its two delete calls.
sourceTargetNodesKeepsFields(properties) ==
    LET none == [ok |-> FALSE, Labels |-> "", Key |-> EmptyMap]
        fail(err) == [err |-> err, sourceNode |-> none, targetNode |-> none,
                      properties |-> properties]
    IN  IF sourceNodeField \notin DOMAIN properties
        THEN fail(ErrEmptySourceNode)
        ELSE IF ~DecodeNode(properties[sourceNodeField]).ok
        THEN fail(ErrDecodeSourceNode)
        ELSE IF targetNodeField \notin DOMAIN properties
        THEN fail(ErrEmptyTargetNode)
        ELSE IF ~DecodeNode(properties[targetNodeField]).ok
        THEN fail(ErrDecodeTargetNode)
        ELSE [err |-> NoErr,
              sourceNode |-> DecodeNode(properties[sourceNodeField]),
              targetNode |-> DecodeNode(properties[targetNodeField]),
              properties |-> properties]

sourceTargetNodesFromProperties(properties) ==
    LET none == [ok |-> FALSE, Labels |-> "", Key |-> EmptyMap]
        fail(err) == [err |-> err, sourceNode |-> none, targetNode |-> none,
                      properties |-> properties]
    IN  IF sourceNodeField \notin DOMAIN properties
        THEN fail(ErrEmptySourceNode)
        ELSE IF ~DecodeNode(properties[sourceNodeField]).ok
        THEN fail(ErrDecodeSourceNode)
        ELSE IF targetNodeField \notin DOMAIN properties
        THEN fail(ErrEmptyTargetNode)
        ELSE IF ~DecodeNode(properties[targetNodeField]).ok
        THEN fail(ErrDecodeTargetNode)
        ELSE [err |-> NoErr,
              sourceNode |-> DecodeNode(properties[sourceNodeField]),
              targetNode |-> DecodeNode(properties[targetNodeField]),
              properties |-> MapDelete(MapDelete(properties, sourceNodeField),
                                       targetNodeField)]

createRelationship(d, record) ==
    LET p == structurizeRawData(record.Payload)
        st == sourceTargetNodesFromProperties(p.data)
        q == [template |-> "createRelationship",
              labels |-> EntityLabels,
              match |-> cypherMatchProperties(st.properties, ""),
              set |-> NoClause,
              srcLabels |-> st.sourceNode.Labels,
              srcMatch |-> cypherMatchProperties(st.sourceNode.Key, "src_"),
              trgtLabels |-> st.targetNode.Labels,
              trgtMatch |-> cypherMatchProperties(st.targetNode.Key, "trgt_")]
        params == WithPrefixed(
                      WithPrefixed(Params(st.properties), "src_",
                                   st.sourceNode.Key),
                      "trgt_", st.targetNode.Key)
    IN  IF p.err # NoErr THEN Failed(d, "handleCreate", p.err)
        ELSE IF st.err # NoErr THEN Failed(d, "handleCreate", st.err)
        ELSE Ran("handleCreate", q, params,
                 executeWriteQuery(d, q, params))

handleCreate(d, et, record) ==
    IF et = EntityTypeNode THEN createNode(d, record)
    ELSE IF et = EntityTypeRelationship THEN createRelationship(d, record)
    ELSE Failed(d, "handleCreate", ErrUnsupportedEntityType)

\* handleUpdate as it would be if it built the MATCH clause from the
\* properties, as createNode does, instead of from the key.
handleUpdateMatchesProperties(d, et, record) ==
    LET k == structurizeRawData(record.Key)
        p == structurizeRawData(record.Payload)
        key == k.data
        properties == MapMergeAbsent(
                          MapDelete(MapDelete(p.data, sourceNodeField),
                                    targetNodeField),
                          key)
        q == Statement(IF et = EntityTypeRelationship
                       THEN "updateRelationship" ELSE "updateNode",
                       EntityLabels,
                       cypherMatchProperties(properties, ""),
                       cypherSetProperties(properties, key))
    IN  IF k.err # NoErr THEN Failed(d, "handleUpdate", k.err)
        ELSE IF p.err # NoErr THEN Failed(d, "handleUpdate", p.err)
        ELSE Ran("handleUpdate", q, Params(properties),
                 executeWriteQuery(d, q, Params(properties)))

handleUpdate(d, et, record) ==
    LET k == structurizeRawData(record.Key)
        p == structurizeRawData(record.Payload)
        key == k.data
        properties == MapMergeAbsent(
                          MapDelete(MapDelete(p.data, sourceNodeField),
                                    targetNodeField),
                          key)
        q == Statement(IF et = EntityTypeRelationship
                       THEN "updateRelationship" ELSE "updateNode",
                       EntityLabels,
                       cypherMatchProperties(key, ""),
                       cypherSetProperties(properties, key))
    IN  IF k.err # NoErr THEN Failed(d, "handleUpdate", k.err)
        ELSE IF p.err # NoErr THEN Failed(d, "handleUpdate", p.err)
        ELSE Ran("handleUpdate", q, Params(properties),
                 executeWriteQuery(d, q, Params(properties)))

\* handleDelete as it would be if the test of the entity type were
\* inverted, so that each entity type got the other one's template.
handleDeleteSwapsTemplates(d, et, record) ==
    LET k == structurizeRawData(record.Key)
        key == k.data
        q == Statement(IF et = EntityTypeRelationship
                       THEN "deleteNode" ELSE "deleteRelationship",
                       EntityLabels, cypherMatchProperties(key, ""), NoClause)
    IN  IF k.err # NoErr THEN Failed(d, "handleDelete", k.err)
        ELSE Ran("handleDelete", q, Params(key),
                 executeWriteQuery(d, q, Params(key)))

handleDelete(d, et, record) ==
    LET k == structurizeRawData(record.Key)
        key == k.data
        q == Statement(IF et = EntityTypeRelationship
                       THEN "deleteRelationship" ELSE "deleteNode",
                       EntityLabels, cypherMatchProperties(key, ""), NoClause)
    IN  IF k.err # NoErr THEN Failed(d, "handleDelete", k.err)
        ELSE Ran("handleDelete", q, Params(key),
                 executeWriteQuery(d, q, Params(key)))

\* Writer.Write as it would be if Route were given the update handler for
\* snapshot records.
WriteSnapshotAsUpdate(d, et, record) ==
    CASE record.Operation = "create" -> handleCreate(d, et, record)
      [] record.Operation = "update" -> handleUpdate(d, et, record)
      [] record.Operation = "delete" -> handleDelete(d, et, record)
      [] record.Operation = "snapshot" -> handleUpdate(d, et, record)

\* Writer.Write: sdk.Util.Destination.Route picks the handler.
Write(d, et, record) ==
    CASE record.Operation = "create" -> handleCreate(d, et, record)
      [] record.Operation = "update" -> handleUpdate(d, et, record)
      [] record.Operation = "delete" -> handleDelete(d, et, record)
      [] record.Operation = "snapshot" -> handleCreate(d, et, record)

\* ------------------------------------------------------- the destination
\* Destination.Write from record i on, n records being written already.
RECURSIVE WriteFrom(_, _, _, _, _)
WriteFrom(d, et, records, i, attempts) ==
    IF i > Len(records)
    THEN [db |-> d, n |-> Len(records), err |-> NoErr,
          attempts |-> attempts, overflow |-> FALSE]
    ELSE LET w == Write(d, et, records[i])
         IN  IF w.overflow
             THEN [db |-> d, n |-> i - 1, err |-> NoErr,
                   attempts |-> attempts, overflow |-> TRUE]
             ELSE IF w.err # NoErr
             THEN [db |-> w.db, n |-> i - 1, err |-> w.err,
                   attempts |-> Append(attempts, w), overflow |-> FALSE]
             ELSE WriteFrom(w.db, et, records, i + 1, Append(attempts, w))

\* Destination.Write as it would be if the loop went on after a failure
\* and returned the index and the error of the first failing record at
\* the end.
RECURSIVE WriteOnFrom(_, _, _, _, _, _, _)
WriteOnFrom(d, et, records, i, attempts, n, err) ==
    IF i > Len(records)
    THEN [db |-> d, n |-> IF err = NoErr THEN Len(records) ELSE n,
          err |-> err, attempts |-> attempts, overflow |-> FALSE]
    ELSE LET w == Write(d, et, records[i])
         IN  IF w.overflow
             THEN [db |-> d, n |-> i - 1, err |-> NoErr,
                   attempts |-> attempts, overflow |-> TRUE]
             ELSE WriteOnFrom(w.db, et, records, i + 1, Append(attempts, w),
                              IF err = NoErr /\ w.err # NoErr THEN i - 1 ELSE n,
                              IF err = NoErr THEN w.err ELSE err)

DestinationWriteGoesOn(d, et, records) ==
    WriteOnFrom(d, et, records, 1, <<>>, 0, NoErr)

DestinationWrite(d, et, records) == WriteFrom(d, et, records, 1, <<>>)

\* --------------------------------------------------- the host's records
Strings == {"a", "b"}

\* Property maps over id and name; "b" is the name a record brings.
PropertyMaps ==
    {m \in UNION {[S -> {Str(x) : x \in Strings}] : S \in SUBSET {"id", "name"}} :
        "name" \in DOMAIN m => m["name"] = Str("b")}

\* A payload's sourceNode or targetNode field: left out, a value that is
\* no object, or the descriptor of the Person nodes with the given id.
FieldAbsent == [type |-> "absent", str |-> "", labels |-> "", key |-> EmptyMap]

NodeDescriptor(id) == NodeObject(EntityLabels, [n \in {"id"} |-> Str(id)])

WithField(m, name, v) ==
    IF v = FieldAbsent THEN m
    ELSE [n \in DOMAIN m \cup {name} |-> IF n = name THEN v ELSE m[n]]

WithEndpoints(m, f) ==
    WithField(WithField(m, sourceNodeField, f[1]), targetNodeField, f[2])

\* <<sourceNode, targetNode>> of the payload of a create or snapshot record.
EndpointFields ==
    {<<FieldAbsent, FieldAbsent>>,
     <<NodeDescriptor("a"), NodeDescriptor("b")>>,
     <<NodeDescriptor("a"), FieldAbsent>>,
     <<FieldAbsent, NodeDescriptor("b")>>,
     <<Str("a"), NodeDescriptor("b")>>,
     <<Str("a"), FieldAbsent>>,
     <<NodeDescriptor("a"), Str("b")>>}

\* Payloads of a relationship from node "a" to node "b" with one property
\* of its own, whose name begins with src_ or trgt_.
PrefixedPayloads ==
    {RawObject(WithEndpoints([n \in {name} |-> Str("b")],
                             <<NodeDescriptor("a"), NodeDescriptor("b")>>)) :
        name \in {"src_id", "trgt_name"}}

CreatePayloads ==
    {RawEmpty, RawGarbage}
    \cup {RawObject(WithEndpoints(m, f)) : m \in PropertyMaps,
                                          f \in EndpointFields}
    \cup PrefixedPayloads

\* An update record's payload has both endpoint fields or none.
UpdatePayloads ==
    {RawEmpty, RawGarbage}
    \cup {RawObject(WithEndpoints(m, f)) :
            m \in PropertyMaps,
            f \in {<<FieldAbsent, FieldAbsent>>,
                   <<NodeDescriptor("a"), NodeDescriptor("b")>>}}

KeyMaps == {m \in PropertyMaps : DOMAIN m \subseteq {"id"}}

Keys == {RawEmpty, RawGarbage} \cup {RawObject(m) : m \in KeyMaps}

Records ==
    {Record(o, RawEmpty, p) : o \in {"create", "snapshot"},
                              p \in CreatePayloads}
    \cup {Record("update", k, p) : k \in Keys, p \in UpdatePayloads}
    \cup {Record("delete", k, RawEmpty) : k \in Keys}

\* The records the host puts into batches.
BatchRecords ==
    LET entity(id, name) == RawObject([n \in {"id", "name"} |->
                                IF n = "id" THEN Str(id) ELSE Str(name)])
        key(id) == RawObject([n \in {"id"} |-> Str(id)])
    IN  {Record("create", RawEmpty, entity("a", "b")),
         Record("snapshot", RawEmpty, RawEmpty),
         Record("update", key("a"), entity("a", "b")),
         Record("update", key("b"), RawGarbage),
         Record("delete", key("a"), RawEmpty),
         Record("delete", RawEmpty, RawEmpty)}

RecordBatches(S) == UNION {[1..k -> S] : k \in 0..MaxBatchLen}

\* ---------------------------------------- Init, actions, specification
\* The state of the source side while the destination is modelled.
SourceIdle ==
    /\ graph = [v \in Values |-> Absent]
    /\ config = [Snapshot |-> TRUE, BatchSize |-> MaxBatch]
    /\ driver = "nil"
    /\ snapshot = NilIterator
    /\ pollingSnapshot = NilIterator
    /\ pc = "idle"
    /\ openPos = NilPosition
    /\ emitted = <<>>
    /\ lastRead = "none"
    /\ runs = 0
    /\ reads = 0
    /\ mutations = 0
    /\ openedWith = NilSDKPosition
    /\ born = [v \in Values |-> NotBorn]

\* The entities the database can hold when the destination is opened: two
\* Person nodes with different ids, and a third node that shares the id of
\* the first, with the writer's label or with another.
InitialEntities(i) ==
    LET node(label, id, name) ==
            NodeEntity(label, [n \in {"id", "name"} |->
                                  IF n = "id" THEN Str(id) ELSE Str(name)])
    IN  CASE i = 1 -> {NoEntity, node(EntityLabels, "a", "a")}
          [] i = 2 -> {NoEntity, node(EntityLabels, "b", "a")}
          [] i = 3 -> {NoEntity, node(EntityLabels, "a", "b"),
                       node(OtherLabels, "a", "a")}
          [] OTHER -> {NoEntity}

\* writer.New: the writer takes the entity type it is given.
DestinationInit ==
    /\ SourceIdle
    /\ db \in {d \in [EntityIds -> UNION {InitialEntities(i) : i \in EntityIds}] :
                  \A i \in EntityIds : d[i] \in InitialEntities(i)}
    /\ entityType \in {EntityTypeNode, EntityTypeRelationship, "unsupported"}
    /\ call = NoCall
    /\ calls = 0
    /\ SessionsIdle
    /\ IteratorIdle

\* What the history keeps of a handler call.
Attempt(w) == [handler |-> w.handler, err |-> w.err,
               statements |-> w.statements, params |-> w.params]

\* Writer.Write(ctx, record), called directly.
WriterWrite(record) ==
    /\ calls < MaxCalls
    /\ \E w \in {Write(db, entityType, record)} :
           /\ ~w.overflow
           /\ db' = w.db
           /\ call' = [op |-> "Writer.Write", records |-> <<record>>,
                       n |-> IF w.err = NoErr THEN 1 ELSE 0, err |-> w.err,
                       attempts |-> <<Attempt(w)>>,
                       changed |-> {i \in EntityIds : w.db[i] # db[i]}]
    /\ calls' = calls + 1
    /\ UNCHANGED entityType
    /\ UNCHANGED srcVars
    /\ UNCHANGED sesVars
    /\ UNCHANGED itVars

\* Destination.Write(ctx, records).
DestinationWriteBatch(records) ==
    /\ calls < MaxCalls
    /\ \E r \in {DestinationWrite(db, entityType, records)} :
           /\ ~r.overflow
           /\ db' = r.db
           /\ call' = [op |-> "Destination.Write", records |-> records,
                       n |-> r.n, err |-> r.err,
                       attempts |-> [i \in 1..Len(r.attempts) |->
                                        Attempt(r.attempts[i])],
                       changed |-> {i \in EntityIds : r.db[i] # db[i]}]
    /\ calls' = calls + 1
    /\ UNCHANGED entityType
    /\ UNCHANGED srcVars
    /\ UNCHANGED sesVars
    /\ UNCHANGED itVars

DoWriterWrite == \E record \in Records : WriterWrite(record)
HostBatches == RecordBatches(BatchRecords)

DoDestinationWrite == \E records \in HostBatches : DestinationWriteBatch(records)

DestinationNext == DoWriterWrite \/ DoDestinationWrite

DestinationSpec == DestinationInit /\ [][DestinationNext]_vars

\* ============================================ sessions of the driver
\* A database operation, statement by statement: every one of them starts
\* with driver.NewSession and `defer session.Close(ctx)`; the steps that
\* follow are listed with whether they can return an error.  The last step
\* of each is a managed transaction of the driver (neo4j.ExecuteWrite,
\* neo4j.ExecuteRead) around a function that submits the statement with
\* tx.Run: the driver runs that function again when an attempt fails with
\* an error it takes to be transient, and returns the error otherwise.
Step(name, fails) == [name |-> name, fails |-> fails]

StepsOf(name) ==
    CASE name = "handleCreate" ->
             <<Step("entityType", TRUE), Step("structurizeRawData", TRUE),
               Step("sourceTargetNodesFromProperties", TRUE),
               Step("cypherMatchProperties", TRUE),
               Step("executeWriteQuery", TRUE)>>
      [] name = "handleUpdate" ->
             <<Step("structurizeRawData key", TRUE),
               Step("structurizeRawData payload", TRUE),
               Step("cypherMatchProperties", TRUE),
               Step("cypherSetProperties", TRUE),
               Step("executeWriteQuery", TRUE)>>
      [] name = "handleDelete" ->
             <<Step("structurizeRawData key", TRUE),
               Step("cypherMatchProperties", TRUE),
               Step("executeWriteQuery", TRUE)>>
      [] name = "loadBatch" ->
             <<Step("whereClause", FALSE), Step("ExecuteRead", TRUE)>>
      [] name = "getMaxPropertyValue" ->
             <<Step("query", FALSE), Step("ExecuteRead", TRUE)>>

Operations == {"handleCreate", "handleUpdate", "handleDelete", "loadBatch",
               "getMaxPropertyValue"}

\* The connector enters a database operation.
Call(name) ==
    /\ task = IdleTask /\ ops < MaxOps
    /\ task' = [IdleTask EXCEPT !.name = name]
    /\ UNCHANGED <<sessions, finished, ops>>
    /\ UNCHANGED srcVars
    /\ UNCHANGED dstVars
    /\ UNCHANGED itVars

\* session := driver.NewSession(...); defer session.Close(ctx)
NewSession ==
    /\ task.name # "none" /\ task.at = 0
    /\ sessions' = sessions + 1
    /\ task' = [task EXCEPT !.at = 1, !.opened = @ + 1, !.deferred = TRUE]
    /\ UNCHANGED <<finished, ops>>
    /\ UNCHANGED srcVars
    /\ UNCHANGED dstVars
    /\ UNCHANGED itVars

\* The operation still has a step to take.
Running ==
    /\ task.name # "none"
    /\ task.at \in 1..Len(StepsOf(task.name))
    /\ task.err = NoErr

\* The step the operation is at is its managed transaction.
AtTransaction ==
    /\ Running
    /\ StepsOf(task.name)[task.at].name \in {"executeWriteQuery", "ExecuteRead"}

\* The connector calls neo4j.ExecuteWrite or neo4j.ExecuteRead.
ExecuteManaged ==
    /\ AtTransaction /\ task.tx = "none"
    /\ task' = [task EXCEPT !.tx = "begun", !.transactions = @ + 1]
    /\ UNCHANGED <<sessions, finished, ops>>
    /\ UNCHANGED srcVars
    /\ UNCHANGED dstVars
    /\ UNCHANGED itVars

\* The driver runs the transaction function: tx.Run submits the statement.
RunTransactionFunction ==
    /\ AtTransaction /\ task.tx = "begun"
    /\ task.submitted < MaxAttempts
    /\ task' = [task EXCEPT !.tx = "ran", !.submitted = @ + 1]
    /\ UNCHANGED <<sessions, finished, ops>>
    /\ UNCHANGED srcVars
    /\ UNCHANGED dstVars
    /\ UNCHANGED itVars

\* The attempt fails (in the function or at the commit) with an error the
\* driver takes to be transient: the driver starts the next attempt.
DriverRetries ==
    /\ AtTransaction /\ task.tx = "ran"
    /\ task.submitted < MaxAttempts
    /\ task' = [task EXCEPT !.tx = "begun"]
    /\ UNCHANGED <<sessions, finished, ops>>
    /\ UNCHANGED srcVars
    /\ UNCHANGED dstVars
    /\ UNCHANGED itVars

\* The next step succeeds; a managed transaction after an attempt that
\* committed.
StepDone ==
    /\ Running
    /\ AtTransaction => task.tx = "ran"
    /\ task' = [task EXCEPT !.at = @ + 1, !.tx = "none"]
    /\ UNCHANGED <<sessions, finished, ops>>
    /\ UNCHANGED srcVars
    /\ UNCHANGED dstVars
    /\ UNCHANGED itVars

\* StepFails as it would be if the operation called the managed
\* transaction again when it returned an error.
StepFailsThenAgain ==
    /\ Running
    /\ StepsOf(task.name)[task.at].fails
    /\ AtTransaction => task.tx \in {"begun", "ran"}
    /\ task' = IF AtTransaction /\ task.transactions < MaxAttempts
               THEN [task EXCEPT !.tx = "none", !.txFailed = TRUE]
               ELSE [task EXCEPT !.err = StepsOf(task.name)[task.at].name,
                                 !.txFailed = AtTransaction]
    /\ UNCHANGED <<sessions, finished, ops>>
    /\ UNCHANGED srcVars
    /\ UNCHANGED dstVars
    /\ UNCHANGED itVars

\* The next step fails (also: the context is cancelled during the query)
\* and the operation returns the error; a managed transaction fails when
\* the driver gives the error of an attempt back.
StepFails ==
    /\ Running
    /\ StepsOf(task.name)[task.at].fails
    /\ AtTransaction => task.tx \in {"begun", "ran"}
    /\ task' = [task EXCEPT !.err = StepsOf(task.name)[task.at].name,
                            !.txFailed = AtTransaction]
    /\ UNCHANGED <<sessions, finished, ops>>
    /\ UNCHANGED srcVars
    /\ UNCHANGED dstVars
    /\ UNCHANGED itVars

\* Return as it would be if the session were closed by a statement at the
\* end of the operation instead of by a deferred call.
ReturnClosesAtEnd ==
    /\ task.name # "none" /\ task.at >= 1
    /\ task.err # NoErr \/ task.at > Len(StepsOf(task.name))
    /\ LET closing == IF task.deferred /\ task.err = NoErr THEN 1 ELSE 0
       IN  /\ sessions' = sessions - closing
           /\ finished' = [name |-> task.name, err |-> task.err,
                           opened |-> task.opened, closed |-> closing,
                           transactions |-> task.transactions,
                           submitted |-> task.submitted,
                           txFailed |-> task.txFailed]
    /\ task' = IdleTask
    /\ ops' = ops + 1
    /\ UNCHANGED srcVars
    /\ UNCHANGED dstVars
    /\ UNCHANGED itVars

\* The operation returns, with an error or after its last step: the
\* deferred session.Close runs.
Return ==
    /\ task.name # "none" /\ task.at >= 1
    /\ task.err # NoErr \/ task.at > Len(StepsOf(task.name))
    /\ LET closing == IF task.deferred THEN 1 ELSE 0
       IN  /\ sessions' = sessions - closing
           /\ finished' = [name |-> task.name, err |-> task.err,
                           opened |-> task.opened, closed |-> closing,
                           transactions |-> task.transactions,
                           submitted |-> task.submitted,
                           txFailed |-> task.txFailed]
    /\ task' = IdleTask
    /\ ops' = ops + 1
    /\ UNCHANGED srcVars
    /\ UNCHANGED dstVars
    /\ UNCHANGED itVars

DoCall == \E name \in Operations : Call(name)

SessionInit == SourceIdle /\ DestinationIdle /\ SessionsIdle /\ IteratorIdle

SessionNext ==
    \/ DoCall
    \/ NewSession
    \/ ExecuteManaged
    \/ RunTransactionFunction
    \/ DriverRetries
    \/ StepDone
    \/ StepFails
    \/ Return

SessionSpec == SessionInit /\ [][SessionNext]_vars

\* ==================================================== the iterator side
\* One iterator under the read helper of the source (HasNext, then Next
\* when there is an element), statement by statement.  iter.s is the
\* *Snapshot; s.records is its channel, of capacity batchSize.
orderingProperty == "id"

\* Config.Init as it would be without its default for keyProperties.
ConfigInitKeepsEmpty(keyProperties) == keyProperties

\* Config.Init: no configured key property means the ordering property.
ConfigInit(keyProperties) ==
    IF Len(keyProperties) = 0 THEN <<orderingProperty>> ELSE keyProperties

\* The keyProperties the host configures; the entities have no email.
KeyPropertyLists == {<<>>, <<"name">>, <<"id", "name">>, <<"email">>}

\* Source.Configure and the constructor Source.Open calls, with no position.
IteratorInit ==
    /\ graph \in [Values -> {Absent, Present(0)}]
    /\ config = [Snapshot |-> TRUE, BatchSize |-> MaxBatch]
    /\ driver = "nil"
    /\ snapshot = NilIterator
    /\ pollingSnapshot = NilIterator
    /\ pc = "idle"
    /\ openPos = NilPosition
    /\ emitted = <<>>
    /\ lastRead = "none"
    /\ runs = 0
    /\ reads = 0
    /\ mutations = 0
    /\ openedWith = NilSDKPosition
    /\ born = [v \in Values |-> NotBorn]
    /\ DestinationIdle
    /\ SessionsIdle
    /\ \E polling \in BOOLEAN, b \in 1..MaxBatch, kp \in KeyPropertyLists :
          iter = [s |-> IF polling
                        THEN NewPollingSnapshot(graph, b, NilPosition)
                        ELSE NewSnapshot(graph, b, NilPosition),
                  configured |-> kp,
                  keyProperties |-> ConfigInit(kp)]
    /\ rd = [pc |-> "idle", ctx |-> "live", rows |-> <<>>, attempts |-> 0,
             n |-> 0, after |-> NilValue]
    /\ ret = [res |-> "none", rec |-> NoRecord]

\* read(ctx, iterator) is called; the context may be cancelled already.
ReadCall(ctx) ==
    /\ rd.pc = "idle" /\ rd.n < MaxCallsOfRead
    /\ rd' = [pc |-> "HasNext", ctx |-> ctx, rows |-> <<>>, attempts |-> 0,
              n |-> rd.n + 1, after |-> rd.after]
    /\ ret' = [res |-> "running", rec |-> NoRecord]
    /\ UNCHANGED iter
    /\ UNCHANGED <<srcVars, dstVars, sesVars>>

\* read returns to its caller.
Returns(res, rec) ==
    /\ rd' = [rd EXCEPT !.pc = "idle", !.rows = <<>>]
    /\ ret' = [res |-> res, rec |-> rec]

\* HasNext up to the call of loadBatch: a queued element is enough.
HasNext ==
    /\ rd.pc = "HasNext"
    /\ rd' = [rd EXCEPT !.pc = IF Len(iter.s.records) > 0 THEN "Next"
                                ELSE "loadBatch"]
    /\ UNCHANGED <<iter, ret>>
    /\ UNCHANGED <<srcVars, dstVars, sesVars>>

\* loadBatch: inside neo4j.ExecuteRead the transaction function runs the
\* query; result holds the rows the database returns.
RunBatchQuery ==
    /\ rd.pc = "loadBatch"
    /\ rd.ctx = "live" /\ QueryValid(iter.s)
    /\ \E rows \in Batches(graph, [iter.s EXCEPT !.records = <<>>]) :
          rd' = [rd EXCEPT !.pc = "process", !.rows = rows,
                           !.attempts = @ + 1,
                           !.after = iter.s.position.LastProcessedValue]
    /\ UNCHANGED <<iter, ret>>
    /\ UNCHANGED <<srcVars, dstVars, sesVars>>

\* The send `s.records <- props` finds the channel full: the one goroutine
\* that could receive is the sender, so it blocks for good.
Blocked ==
    /\ rd.pc = "process" /\ rd.rows # <<>>
    /\ Len(iter.s.records) >= iter.s.batchSize

\* processNeo4jResult: the next row of the result is sent to the channel.
Enqueue ==
    /\ rd.pc = "process" /\ rd.rows # <<>> /\ ~Blocked
    /\ iter' = [iter EXCEPT !.s.records = Append(@, Head(rd.rows))]
    /\ rd' = [rd EXCEPT !.rows = Tail(@)]
    /\ UNCHANGED ret
    /\ UNCHANGED <<srcVars, dstVars, sesVars>>

\* The managed transaction returns an error (the query is rejected, the
\* context is cancelled, the database fails): HasNext and read return it.
\* What was sent to the channel stays there.
LoadBatchFails ==
    /\ rd.pc \in {"loadBatch", "process"} /\ ~Blocked
    /\ Returns("error", NoRecord)
    /\ UNCHANGED iter
    /\ UNCHANGED <<srcVars, dstVars, sesVars>>

\* The attempt of the managed transaction fails, while the result is read
\* (result.NextRecord returns false, the loop ends) or at the commit, with
\* an error the driver takes to be transient: the driver runs the
\* transaction function again.
DriverRetriesRead ==
    /\ rd.pc = "process" /\ ~Blocked
    /\ rd.attempts < MaxAttempts
    /\ rd' = [rd EXCEPT !.pc = "loadBatch", !.rows = <<>>]
    /\ UNCHANGED <<iter, ret>>
    /\ UNCHANGED <<srcVars, dstVars, sesVars>>

\* The result is read to its end and the transaction commits: loadBatch
\* returns nil, HasNext returns len(s.records) > 0, and read calls Next or
\* returns sdk.ErrBackoffRetry.
LoadBatchReturns ==
    /\ rd.pc = "process" /\ rd.rows = <<>>
    /\ IF Len(iter.s.records) > 0
       THEN rd' = [rd EXCEPT !.pc = "Next"] /\ UNCHANGED ret
       ELSE Returns("backoff", NoRecord)
    /\ UNCHANGED iter
    /\ UNCHANGED <<srcVars, dstVars, sesVars>>

\* Next, the case <-ctx.Done() of its select.
NextContextDone ==
    /\ rd.pc = "Next" /\ rd.ctx = "cancelled"
    /\ Returns("cancelled", NoRecord)
    /\ UNCHANGED iter
    /\ UNCHANGED <<srcVars, dstVars, sesVars>>

\* Next, the case record := <-s.records of its select: the position moves
\* to the element, then the key is built from s.keyProperties.
NextReceives ==
    /\ rd.pc = "Next" /\ Len(iter.s.records) > 0
    /\ LET record == Head(iter.s.records)
           nx == Next(iter.s, 0)
           kp == iter.keyProperties
           names == {kp[i] : i \in 1..Len(kp)}
       IN  /\ iter' = [iter EXCEPT !.s = nx.it]
           /\ IF names \subseteq DOMAIN record
              THEN Returns("record",
                           [Operation |-> nx.rec.Operation,
                            Position |-> nx.rec.Position,
                            Key |-> [n \in names |-> record[n]],
                            Payload |-> record])
              ELSE Returns("error", NoRecord)
    /\ UNCHANGED <<srcVars, dstVars, sesVars>>

IteratorNext ==
    \/ \E ctx \in {"live", "cancelled"} : ReadCall(ctx)
    \/ HasNext
    \/ RunBatchQuery
    \/ Enqueue
    \/ LoadBatchFails
    \/ DriverRetriesRead
    \/ LoadBatchReturns
    \/ NextContextDone
    \/ NextReceives
    \/ DoInsert

IteratorSpec == IteratorInit /\ [][IteratorNext]_vars

\* =============================================================== claims
\* The records of run r (indices into emitted), and of the current run.
RunRecs(r) == {i \in 1..Len(emitted) : emitted[i].run = r}

Cur == RunRecs(runs)

\* How often the current run emitted entity v by the given iterator.
Times(v, polling) ==
    Cardinality({i \in Cur : emitted[i].value = v
                             /\ emitted[i].polling = polling})

\* Within every run, each iterator's records came out in ascending order:
\* true of every run in which the database happened to return sorted rows.
RowsCameSorted ==
    \A i, j \in 1..Len(emitted) :
        (i < j /\ emitted[i].run = emitted[j].run
               /\ emitted[i].polling = emitted[j].polling)
            => emitted[i].value < emitted[j].value

\* A run that was opened with no position and with the snapshot enabled.
FreshSnapshotRun ==
    driver = "open" /\ pc = "idle" /\ openedWith.nil /\ config.Snapshot

\* C1: in a run opened with no position and the snapshot enabled, with no
\* write to the graph, no entity is emitted twice as a snapshot record, and
\* once the snapshot iterator is discarded every entity has been emitted
\* exactly once as a snapshot record.
C1_SnapshotEmitsEachEntityOnce ==
    (FreshSnapshotRun /\ mutations = 0) =>
        /\ \A v \in Values : Times(v, FALSE) <= 1
        /\ snapshot.nil => \A v \in Entities(graph) : Times(v, FALSE) = 1

\* The run before the current one stopped after at least one record, all
\* of them snapshot records, and the current run was opened with the
\* position of the last of them.
ResumedFromLast ==
    /\ runs >= 2 /\ driver = "open" /\ pc = "idle"
    /\ RunRecs(runs - 1) # {}
    /\ \A i \in RunRecs(runs - 1) : emitted[i].Operation = "snapshot"
    /\ openedWith = emitted[Max(RunRecs(runs - 1))].Position

\* C2: after such a resume (no write to the graph, the snapshot enabled),
\* the run emits only entities above the position's lastProcessedValue,
\* each at most once over both iterators, none that the earlier run
\* emitted, and when Read signals retry-later every entity above
\* lastProcessedValue has been emitted.  Stated for the runs in which the
\* database returned its rows sorted.
C2_ResumeIsIdempotent ==
    (ResumedFromLast /\ config.Snapshot /\ mutations = 0 /\ RowsCameSorted) =>
        LET lpv == openedWith.lastProcessedValue.num
        IN  /\ \A i \in Cur : emitted[i].value > lpv
            /\ \A i, j \in Cur : i # j => emitted[i].value # emitted[j].value
            /\ \A i \in Cur, j \in RunRecs(runs - 1) :
                   emitted[i].value # emitted[j].value
            /\ lastRead = "backoff" =>
                   \A v \in Entities(graph) :
                       v > lpv => \E i \in Cur : emitted[i].value = v

\* C3: an entity inserted while Open runs or during the snapshot phase is
\* emitted at most once in that run, and never by both the snapshot and the
\* polling iterator.  Stated for the runs in which the database returned its
\* rows sorted.
C3_ConcurrentInsertEmittedOnce ==
    (driver = "open" /\ RowsCameSorted) =>
        \A v \in Values :
            born[v].phase \in {"opening", "snapshot"} =>
                /\ Times(v, FALSE) + Times(v, TRUE) <= 1
                /\ ~(Times(v, FALSE) > 0 /\ Times(v, TRUE) > 0)

\* Entities inserted in the polling-only phase of this run above every value
\* the source had emitted or captured, and still in the graph.
InsertedForPolling ==
    {v \in Entities(graph) : born[v].phase = "polling" /\ born[v].above}

\* C4: a Read of the polling-only phase that signals retry-later found no
\* entity above the cursor, and the cursor never moves back to one: by then
\* every entity inserted in the polling-only phase above all values emitted
\* or captured has been emitted, exactly once, as a create record.
C4_PollingEmitsEveryInsert ==
    [][(Phase = "polling" /\ reads' = reads + 1 /\ lastRead' = "backoff") =>
          \A v \in InsertedForPolling :
              /\ Times(v, TRUE) = 1
              /\ \A i \in Cur : emitted[i].value = v
                                => emitted[i].Operation = "create"]_vars

\* C5: of two snapshot records of one run, the earlier has the smaller
\* ordering value.
C5_SnapshotAscending ==
    \A i, j \in Cur :
        (i < j /\ emitted[i].Operation = "snapshot"
               /\ emitted[j].Operation = "snapshot")
            => emitted[i].value < emitted[j].value

\* C6: every record has operation snapshot exactly when its position's mode
\* is snapshot and operation create exactly when the mode is
\* snapshot_polling; the polling iterator's records are create records with
\* mode snapshot_polling; no record has another operation, whatever was
\* inserted, updated or deleted in the graph.
C6_OperationMatchesMode ==
    \A i \in 1..Len(emitted) :
        LET r == emitted[i]
        IN  /\ r.Operation \in {"snapshot", "create"}
            /\ r.Operation = "snapshot" <=> r.Position.mode = ModeSnapshot
            /\ r.Operation = "create"
                   <=> r.Position.mode = ModeSnapshotPolling
            /\ r.polling => /\ r.Operation = "create"
                            /\ r.Position.mode = ModeSnapshotPolling

\* Both iterators have emitted, one of the records shows an updated entity,
\* and an entity was deleted.
C6_Witness ==
    /\ \E i, j \in 1..Len(emitted) : ~emitted[i].polling /\ emitted[j].polling
    /\ \E i \in 1..Len(emitted) : emitted[i].name > 0
    /\ \E v \in Values : graph[v] = Deleted

\* The run is in the polling-only phase: its snapshot iterator is gone, or
\* it has returned a record whose position has mode snapshot_polling.
PollingOnly ==
    /\ driver = "open" /\ pc = "idle"
    /\ \/ snapshot.nil
       \/ \E i \in Cur : emitted[i].Position.mode = ModeSnapshotPolling

\* C7: a Read of a run in the polling-only phase leaves the source without
\* a snapshot iterator and returns no snapshot record and no position of
\* mode snapshot.
C7_SnapshotToPollingOneWay ==
    [][(PollingOnly /\ reads' = reads + 1) =>
          /\ snapshot'.nil
          /\ Len(emitted') > Len(emitted) =>
                 LET r == emitted'[Len(emitted')]
                 IN  /\ r.Operation # "snapshot"
                     /\ r.Position.mode # ModeSnapshot]_vars

\* A run returned a snapshot record, then a create record, then a further
\* record.
C7_Witness ==
    \E i, j, k \in Cur :
        /\ i < j /\ j < k
        /\ emitted[i].Operation = "snapshot"
        /\ emitted[j].Position.mode = ModeSnapshotPolling

\* C8: right after Open (no Read of this run yet) there is a polling
\* iterator, and there is a snapshot iterator exactly if the snapshot option
\* is enabled and the position was nil or of mode snapshot.
C8_SnapshotIteratorIffDue ==
    (driver = "open" /\ pc = "idle" /\ lastRead = "none") =>
        /\ ~pollingSnapshot.nil
        /\ ~snapshot.nil <=> SnapshotDue(config, ParsePosition(openedWith))

\* No entity has an ordering value above the polling iterator's cursor.
NoEntityAboveCursor ==
    LET lpv == pollingSnapshot.position.LastProcessedValue
    IN  \A v \in Entities(graph) : ~IsNil(lpv) /\ v <= lpv.num

\* C9: a Read in the polling-only phase, when no entity is above the
\* cursor, signals retry-later, returns no record and leaves the polling
\* iterator's position and the phase as they were.
C9_IdlePollingBacksOff ==
    [][(Phase = "polling" /\ NoEntityAboveCursor /\ reads' = reads + 1) =>
          /\ lastRead' = "backoff"
          /\ emitted' = emitted
          /\ pollingSnapshot'.position = pollingSnapshot.position
          /\ snapshot' = snapshot]_vars

\* C10: in a run opened with no position on an empty graph that stays
\* empty, no maximum was captured and every Read so far, the first
\* included, signalled retry-later.
C10_EmptyGraphBacksOff ==
    (driver = "open" /\ pc = "idle" /\ openedWith.nil /\ mutations = 0
     /\ Entities(graph) = {}) =>
        /\ IsNil(pollingSnapshot.position.LastProcessedValue)
        /\ ~snapshot.nil => IsNil(snapshot.orderingPropertyMaxValue)
        /\ lastRead \in {"none", "backoff"}

\* ------------------------------------------------- destination claims
\* The database after Writer.Write has taken the first k of the records,
\* one after the other, starting from d.
RECURSIVE AfterRecords(_, _, _, _)
AfterRecords(d, et, records, k) ==
    IF k = 0 THEN d
    ELSE Write(AfterRecords(d, et, records, k - 1), et, records[k]).db

\* This step is a call of Destination.Write.
IsDestinationWrite == calls' # calls /\ call'.op = "Destination.Write"

\* C11: Destination.Write hands the records to Writer.Write in slice order,
\* one call per record; when record i (counting from 0) is the first to
\* fail it returns (i, error), i being the number of records written before
\* it, the records after i are never attempted and the effects of records
\* 0..i-1 stay applied; when none fails it returns (len(records), nil).
C11_WriteStopsAtFirstFailure ==
    [][IsDestinationWrite =>
        LET records == call'.records
            n == call'.n
            fails(k) == Write(AfterRecords(db, entityType, records, k - 1),
                              entityType, records[k]).err # NoErr
            tried == IF n < Len(records) THEN n + 1 ELSE n
        IN  /\ n \in 0..Len(records)
            /\ \A k \in 1..n : ~fails(k)
            /\ n < Len(records) =>
                  /\ fails(n + 1)
                  /\ call'.err = Write(AfterRecords(db, entityType, records, n),
                                       entityType, records[n + 1]).err
            /\ n = Len(records) => call'.err = NoErr
            /\ Len(call'.attempts) = tried
            /\ \A k \in 1..tried :
                  call'.attempts[k] =
                      Attempt(Write(AfterRecords(db, entityType, records, k - 1),
                                    entityType, records[k]))
            /\ db' = AfterRecords(db, entityType, records, n)
    ]_vars

\* A batch whose second record failed after the first one sent its
\* statement, with another record left behind it.
C11_Witness ==
    /\ call.op = "Destination.Write"
    /\ Len(call.records) = MaxBatchLen
    /\ call.n = 1 /\ call.err # NoErr
    /\ Len(call.attempts) = 2
    /\ call.attempts[1].statements # <<>>

\* This step is a direct call of Writer.Write; its record and what the
\* handler did.
IsWriterWrite == calls' # calls /\ call'.op = "Writer.Write"

TheRecord == call'.records[1]

TheAttempt == call'.attempts[1]

\* The handler Route has to pick for an operation.
HandlerOf(operation) ==
    CASE operation \in {"create", "snapshot"} -> "handleCreate"
      [] operation = "update" -> "handleUpdate"
      [] operation = "delete" -> "handleDelete"

\* The entities this step added, and those it left as they were.
Added == {i \in EntityIds : db[i] = NoEntity /\ db'[i] # NoEntity}

Untouched(ids) == \A i \in ids : db'[i] = db[i]

SelectingKey(descriptor, prefix, props) ==
    [n \in DOMAIN descriptor.key |->
        IF (prefix \o n) \in DOMAIN props THEN props[prefix \o n]
        ELSE descriptor.key[n]]

\* The nodes of the given labels whose properties have the values of key.
Selected(d, labels, key) ==
    {i \in EntityIds :
        /\ d[i].kind = "node"
        /\ d[i].label = labels
        /\ \A n \in DOMAIN key :
              n \in DOMAIN d[i].props /\ d[i].props[n] = key[n]}

AddressedKind ==
    IF entityType = EntityTypeRelationship THEN "relationship" ELSE "node"

\* The entities of the configured labels whose properties match key k.
MatchingKey(k) ==
    {i \in EntityIds :
        /\ db[i].kind = AddressedKind
        /\ db[i].label = EntityLabels
        /\ \A n \in DOMAIN k : n \in DOMAIN db[i].props /\ db[i].props[n] = k[n]}

\* This step is a successful update whose payload agrees with its key.
IsAgreeingUpdate ==
    /\ IsWriterWrite
    /\ TheRecord.Operation = "update" /\ call'.err = NoErr
    /\ \A n \in DOMAIN TheRecord.Key.fields \cap DOMAIN TheRecord.Payload.fields :
          TheRecord.Payload.fields[n] = TheRecord.Key.fields[n]

\* The step sets the properties `names` of the entities matching k to p's
\* values and changes nothing else.
SetsOnly(k, p, names) ==
    /\ \A i \in MatchingKey(k) :
          /\ db'[i].kind = db[i].kind /\ db'[i].label = db[i].label
          /\ db'[i].src = db[i].src /\ db'[i].trgt = db[i].trgt
          /\ DOMAIN db'[i].props = DOMAIN db[i].props \cup names
          /\ \A n \in names : db'[i].props[n] = p[n]
          /\ \A n \in DOMAIN db[i].props \ names :
                db'[i].props[n] = db[i].props[n]
    /\ Untouched(EntityIds \ MatchingKey(k))

\* C13: a successful update with key k and a payload p that agrees with k
\* on the key's names sets every non-key property of p, on every entity of
\* the configured labels that matches k, to p's value, and leaves the key
\* properties, the properties p does not name and the entities that do not
\* match k as they were.
C13_UpdateSetsNonKeyProperties ==
    [][IsAgreeingUpdate =>
        LET k == TheRecord.Key.fields
            p == TheRecord.Payload.fields
        IN  SetsOnly(k, p, DOMAIN p \ DOMAIN k)
    ]_vars

\* C13 as amended: ... sets every non-key property of p other than
\* sourceNode and targetNode ...; these two are left as they were, like the
\* properties p does not name.
C13_UpdateSetsNonReservedProperties ==
    [][IsAgreeingUpdate =>
        LET k == TheRecord.Key.fields
            p == TheRecord.Payload.fields
        IN  SetsOnly(k, p, (DOMAIN p \ DOMAIN k)
                            \ {sourceNodeField, targetNodeField})
    ]_vars

\* An update by id "a" whose payload names the endpoints has renamed the
\* first node, the node with id "b" is still there under its old name.
C13_Witness ==
    /\ call.op = "Writer.Write"
    /\ call.records[1].Operation = "update" /\ call.err = NoErr
    /\ call.records[1].Key.fields = [n \in {"id"} |-> Str("a")]
    /\ sourceNodeField \in DOMAIN call.records[1].Payload.fields
    /\ db[1].kind = "node" /\ db[1].props["name"] = Str("b")
    /\ db[2].kind = "node" /\ db[2].props["name"] = Str("a")
    /\ db[3].kind = "node" /\ db[3].label = EntityLabels

\* C14: a successful delete with key k removes every entity of the
\* configured labels whose properties match k, so that a lookup by k finds
\* nothing afterwards, and removes no entity that does not match k.
C14_DeleteRemovesExactlyMatches ==
    [][(IsWriterWrite /\ TheRecord.Operation = "delete" /\ call'.err = NoErr) =>
        LET k == TheRecord.Key.fields
        IN  /\ \A i \in MatchingKey(k) : db'[i] = NoEntity
            /\ Untouched(EntityIds \ MatchingKey(k))
            /\ ~\E i \in EntityIds :
                   /\ db'[i].kind = AddressedKind
                   /\ db'[i].label = EntityLabels
                   /\ \A n \in DOMAIN k :
                         n \in DOMAIN db'[i].props /\ db'[i].props[n] = k[n]
    ]_vars

\* A delete by id "a" has removed the two nodes with that id; the node with
\* id "b" is still there.
C14_Witness ==
    /\ call.op = "Writer.Write"
    /\ call.records[1].Operation = "delete" /\ call.err = NoErr
    /\ call.records[1].Key.fields = [n \in {"id"} |-> Str("a")]
    /\ call.changed = {1, 3}
    /\ db[1] = NoEntity /\ db[3] = NoEntity
    /\ db[2].kind = "node"

\* The step sent no statement to the database and left it as it was.
NothingExecuted == TheAttempt.statements = <<>> /\ db' = db

\* C15: an update or delete record whose key is structured but carries no
\* property, such as {}, is rejected with an error and no statement is
\* executed, so it matches, modifies and deletes nothing.  Stated for a
\* database that holds entities of the configured labels and, for an
\* update, a payload that is an object with a name.
C15_EmptyKeyRejected ==
    [][(/\ IsWriterWrite
        /\ TheRecord.Operation \in {"update", "delete"}
        /\ TheRecord.Key.raw = "object"
        /\ TheRecord.Key.fields = EmptyMap
        /\ MatchingKey(EmptyMap) # {}
        /\ TheRecord.Operation = "update"
              => /\ TheRecord.Payload.raw = "object"
                 /\ "name" \in DOMAIN TheRecord.Payload.fields)
        => call'.err # NoErr /\ NothingExecuted
    ]_vars

\* The record's create handler reads the payload, the other handlers read
\* the key first.
IsCreateRecord == TheRecord.Operation \in {"create", "snapshot"}

\* What the claim says of raw data that is empty or unparseable.
RejectsRawData(rawData) ==
    /\ rawData.raw = "empty" => call'.err = ErrEmptyRawData
    /\ rawData.raw = "garbage" => call'.err = ErrUnmarshal
    /\ rawData.raw \in {"empty", "garbage"} => NothingExecuted

\* C16: a create or snapshot record whose payload bytes are nil or empty,
\* and an update or delete record whose key bytes are nil or empty, fails
\* with ErrEmptyRawData; unparseable bytes fail with an unmarshal error; in
\* each case no statement is sent and the graph is unchanged.
C16_EmptyRawDataRejected ==
    [][IsWriterWrite =>
        IF IsCreateRecord THEN RejectsRawData(TheRecord.Payload)
        ELSE RejectsRawData(TheRecord.Key)
    ]_vars

\* C16 as amended: the same, the create or snapshot record being given to a
\* writer of entity type node or relationship.
C16_EmptyRawDataRejectedBySupported ==
    [][IsWriterWrite =>
        IF IsCreateRecord
        THEN entityType \in {EntityTypeNode, EntityTypeRelationship}
                => RejectsRawData(TheRecord.Payload)
        ELSE RejectsRawData(TheRecord.Key)
    ]_vars

\* A snapshot record without payload bytes was refused by a node writer
\* whose database holds entities.
C16_Witness ==
    /\ call.op = "Writer.Write"
    /\ call.records[1].Operation = "snapshot"
    /\ call.records[1].Payload = RawEmpty
    /\ entityType = EntityTypeNode
    /\ call.err = ErrEmptyRawData
    /\ call.attempts[1].statements = <<>> /\ call.changed = {}
    /\ db[1] # NoEntity

\* This step gives a create or snapshot record with a parseable payload to
\* a relationship writer.
IsRelationshipCreate ==
    /\ IsWriterWrite /\ IsCreateRecord
    /\ entityType = EntityTypeRelationship
    /\ TheRecord.Payload.raw = "object"

\* C17: for entity type relationship a create or snapshot record whose
\* payload lacks sourceNode fails with ErrEmptySourceNode, one that has
\* sourceNode but lacks targetNode fails with ErrEmptyTargetNode, and in
\* both cases no statement is executed and no relationship is created.
C17_MissingEndpointRejected ==
    [][IsRelationshipCreate =>
        LET payload == TheRecord.Payload.fields
        IN  /\ sourceNodeField \notin DOMAIN payload
               => call'.err = ErrEmptySourceNode /\ NothingExecuted
            /\ (/\ sourceNodeField \in DOMAIN payload
                /\ targetNodeField \notin DOMAIN payload)
               => call'.err = ErrEmptyTargetNode /\ NothingExecuted
    ]_vars

\* C17 as amended: ... one whose sourceNode is an object, which decodes
\* into a node, but that lacks targetNode fails with ErrEmptyTargetNode ...
C17_MissingEndpointAfterDecode ==
    [][IsRelationshipCreate =>
        LET payload == TheRecord.Payload.fields
        IN  /\ sourceNodeField \notin DOMAIN payload
               => call'.err = ErrEmptySourceNode /\ NothingExecuted
            /\ (/\ sourceNodeField \in DOMAIN payload
                /\ payload[sourceNodeField].type = "object"
                /\ targetNodeField \notin DOMAIN payload)
               => call'.err = ErrEmptyTargetNode /\ NothingExecuted
    ]_vars

\* A create record with a sourceNode object and no targetNode was refused
\* by a relationship writer whose database holds both end nodes.
C17_Witness ==
    /\ call.op = "Writer.Write"
    /\ call.records[1].Operation = "create"
    /\ entityType = EntityTypeRelationship
    /\ call.records[1].Payload.raw = "object"
    /\ sourceNodeField \in DOMAIN call.records[1].Payload.fields
    /\ targetNodeField \notin DOMAIN call.records[1].Payload.fields
    /\ call.err = ErrEmptyTargetNode
    /\ call.attempts[1].statements = <<>> /\ call.changed = {}
    /\ db[1].kind = "node" /\ db[2].kind = "node"

\* C18: a writer whose entity type is neither node nor relationship fails
\* with ErrUnsupportedEntityType for a record of any operation and executes
\* no statement.  Stated for records whose key and payload are well-formed
\* objects, so that no other error comes first.
C18_UnsupportedEntityTypeRejected ==
    [][(/\ IsWriterWrite
        /\ entityType \notin {EntityTypeNode, EntityTypeRelationship}
        /\ IsCreateRecord => TheRecord.Payload.raw = "object"
        /\ ~IsCreateRecord =>
              /\ TheRecord.Key.raw = "object"
              /\ TheRecord.Key.fields # EmptyMap
              /\ TheRecord.Operation = "update"
                    => /\ TheRecord.Payload.raw = "object"
                       /\ "name" \in DOMAIN TheRecord.Payload.fields)
        => call'.err = ErrUnsupportedEntityType /\ NothingExecuted
    ]_vars

\* ------------------------------------------------------ position codec
\* C19: for every Position p an iterator holds (mode snapshot or
\* snapshot_polling, lastProcessedValue and maxElement integer or floating,
\* maxElement possibly absent), ParsePosition(MarshalSDKPosition(p)) equals
\* p in mode, lastProcessedValue and maxElement, numeric types included.
C19_PositionRoundTrip ==
    \A it \in {snapshot, pollingSnapshot} :
        (~it.nil /\ ~it.position.nil)
            => ParsePosition(MarshalSDKPosition(it.position)) = it.position

\* ------------------------------------------------------------- sessions
\* C20: every database operation (a writer handler, a batch load, a
\* max-value lookup) opens exactly one session and has closed it when it
\* returns, with or without an error; between two operations the connector
\* holds no open session.
C20_OneSessionPerOperation ==
    /\ sessions \in {0, 1}
    /\ task = IdleTask => sessions = 0
    /\ finished # NoneFinished => finished.opened = 1 /\ finished.closed = 1

\* After an update that failed when it read its payload, a batch load is
\* running its query with one session open.
C20_Witness ==
    /\ finished.name = "handleUpdate"
    /\ finished.err = "structurizeRawData payload"
    /\ task.name = "loadBatch" /\ task.at = 2
    /\ sessions = 1

\* ------------------------------------------------------------- retries
\* The operations of a Writer.Write call and of a HasNext call.
IsWriteOrLoad(name) ==
    name \in {"handleCreate", "handleUpdate", "handleDelete", "loadBatch"}

\* C21: within one Writer.Write call the record's statement is submitted
\* to the database at most once, and within one HasNext call the batch
\* query is submitted at most once.
C21_StatementSubmittedOnce ==
    /\ IsWriteOrLoad(task.name) => task.submitted <= 1
    /\ IsWriteOrLoad(finished.name) => finished.submitted <= 1

\* C21 as amended: within one Writer.Write call and within one HasNext
\* call the connector starts at most one managed transaction of the driver
\* (inside which the driver may submit the statement again after a
\* transient failure), and when that transaction returns an error the
\* operation returns an error to the host.
C21_OneManagedTransaction ==
    /\ IsWriteOrLoad(task.name) => task.transactions <= 1
    /\ IsWriteOrLoad(finished.name) =>
          /\ finished.transactions <= 1
          /\ finished.txFailed => finished.err # NoErr

\* A create handler whose statement was submitted twice inside its one
\* managed transaction has returned that transaction's error.
C21_Witness ==
    /\ finished.name = "handleCreate"
    /\ finished.transactions = 1 /\ finished.submitted = 2
    /\ finished.txFailed /\ finished.err = "executeWriteQuery"

\* ------------------------------------------------------ iterator claims
\* This step is Next returning.
NextReturns == rd.pc = "Next" /\ rd'.pc = "idle"

\* C22: Next called with an already-cancelled context returns the
\* context's error, dequeues no element and leaves the iterator's position
\* unchanged, even when the queue is non-empty.
C22_CancelledNextReturnsContextError ==
    [][(NextReturns /\ rd.ctx = "cancelled") =>
          /\ ret'.res = "cancelled"
          /\ iter'.s.records = iter.s.records
          /\ iter'.s.position = iter.s.position]_vars

\* C23: every record Next emits has a key whose fields are exactly the
\* configured key properties, each with the element's value of it, and
\* exactly {orderingProperty: value} when none is configured; when the
\* element lacks a configured key property Next returns an error and no
\* record.
C23_KeyFromKeyProperties ==
    [][(NextReturns /\ iter'.s.records # iter.s.records) =>
          LET element == Head(iter.s.records)
              names == IF iter.configured = <<>> THEN {orderingProperty}
                       ELSE {iter.configured[i] :
                                i \in 1..Len(iter.configured)}
          IN  IF names \subseteq DOMAIN element
              THEN /\ ret'.res = "record"
                   /\ DOMAIN ret'.rec.Key = names
                   /\ \A n \in names : ret'.rec.Key[n] = element[n]
              ELSE /\ ret'.res = "error"
                   /\ ret'.rec = NoRecord]_vars

\* With no key property configured, Next has returned the record of the
\* entity with the largest ordering value under the key {id: value}.
C23_Witness ==
    /\ iter.configured = <<>>
    /\ ret.res = "record"
    /\ ret.rec.Payload.id = MaxValue
    /\ ret.rec.Key = [n \in {orderingProperty} |-> MaxValue]

\* C28: the pending queue holds at most batchSize elements, HasNext has a
\* batch loaded only when the queue is empty, Next is invoked only when
\* the queue is non-empty, and so neither the enqueue in loadBatch nor the
\* dequeue in Next ever blocks.
C28_QueueNeverBlocks ==
    /\ Len(iter.s.records) <= iter.s.batchSize
    /\ (rd.pc = "loadBatch" /\ rd.attempts = 0) => Len(iter.s.records) = 0
    /\ rd.pc = "Next" => Len(iter.s.records) > 0
    /\ ~Blocked

\* ------------------------------------------------- source claims, C24 on
\* C24: two snapshot runs over the same entity set with the same
\* configuration and starting position, with no graph mutation, return
\* the same records in the same order.  Both runs pass through the same
\* states as long as they agree, so in every state of a snapshot the record
\* the next Read returns is the same whichever rows the database hands
\* to the batch query.
C24_SnapshotDeterministic ==
    (driver = "open" /\ pc = "idle" /\ ~snapshot.nil) =>
        \A b1, b2 \in Batches(graph, snapshot) :
            LET first == read(snapshot, b1, runs)
                second == read(snapshot, b2, runs)
            IN  /\ first.res = second.res
                /\ first.rec = second.rec

\* The entities that were in the graph when the current run's Open
\* captured the low-water mark and still are.
ExistedAtOpen == {v \in Entities(graph) : born[v].phase = "none"}

IsRead == reads' = reads + 1

\* The snapshot iterator is there and exhausted: its read would yield the
\* retry-later signal.
SnapshotExhausted ==
    /\ ~snapshot.nil
    /\ Len(snapshot.records) = 0
    /\ QueryValid(snapshot)
    /\ Matching(graph, snapshot) = {}

\* What the step returned and did to the polling iterator is a read of the
\* polling iterator.
ReturnsPollingRead ==
    \E b \in Batches(graph, pollingSnapshot) :
        LET p == read(pollingSnapshot, b, runs)
        IN  /\ lastRead' = p.res
            /\ pollingSnapshot' = p.it
            /\ emitted' = IF p.res = "record" THEN Append(emitted, p.rec)
                          ELSE emitted

\* C26: a Read that finds the snapshot iterator exhausted discards it and
\* returns, in the same call, the polling iterator's result: a create
\* record, or the retry-later signal if polling has nothing; every later
\* Read of the run consults only the polling iterator.
C26_ExhaustedSnapshotFallsThrough ==
    [][IsRead =>
          /\ SnapshotExhausted =>
                /\ snapshot'.nil
                /\ ReturnsPollingRead
                /\ lastRead' \in {"record", "backoff"}
                /\ lastRead' = "record" =>
                       emitted'[Len(emitted')].Operation = "create"
          /\ snapshot.nil => snapshot'.nil /\ ReturnsPollingRead]_vars

\* The snapshot iterator is there and its read fails with an error that is
\* not the retry-later signal.
SnapshotFails ==
    /\ ~snapshot.nil
    /\ \A b \in Batches(graph, snapshot) :
           read(snapshot, b, runs).res = "error"

C29_SnapshotWithinMaxElement ==
    \A i \in 1..Len(emitted) :
        emitted[i].Operation = "snapshot" =>
            /\ emitted[i].Position.maxElement.json = "number"
            /\ emitted[i].value <= emitted[i].Position.maxElement.num

\* The snapshot of this run has returned a record and has been read to
\* exhaustion while an entity above its bound, inserted during the
\* snapshot phase, was in the graph.
C29_Witness ==
    /\ Phase = "polling"
    /\ lastRead = "backoff"
    /\ \E i \in 1..Len(emitted), v \in Values :
           /\ emitted[i].Operation = "snapshot"
           /\ emitted[i].run = runs
           /\ Exists(graph, v)
           /\ born[v].phase = "snapshot"
           /\ v > emitted[i].Position.maxElement.num

\* The latest Open resumed from a snapshot-mode position that carries a
\* maxElement.
ResumedSnapshot ==
    /\ ~openedWith.nil
    /\ openedWith.mode = ModeSnapshot
    /\ openedWith.maxElement.json = "number"

C31_PollingAboveCursor ==
    iter.s.polling =>
        /\ ~HasPart(whereClause(iter.s), "opmvLTE")
        /\ Len(rd.rows) <= iter.s.batchSize
        /\ Len(iter.s.records) <= iter.s.batchSize
        /\ \A i \in 1..Len(rd.rows) : rd.rows[i].id > rd.after.num
        /\ \A i \in 1..Len(iter.s.records) :
               iter.s.records[i].id > rd.after.num
        /\ ret.res = "record" => ret.rec.Payload.id > rd.after.num

\* The first read of a polling iterator that started at cursor 2 returned
\* a record after the entities 1 and 3 had been inserted.
C31_Witness ==
    /\ iter.s.polling
    /\ ret.res = "record"
    /\ rd.n = 1
    /\ rd.after.num = 2
    /\ mutations = 2
    /\ Exists(graph, 1)
    /\ ret.rec.Payload.id = 3

\* C32: the position of a returned record has lastProcessedValue equal to
\* the record's own ordering value, and after the successful Next the
\* iterator's position is the position attached to that record.
C32_PositionIsTheRecords ==
    ret.res = "record" =>
        /\ ret.rec.Position.lastProcessedValue =
               JSONOf(DBValue(ret.rec.Payload[orderingProperty]))
        /\ ~iter.s.position.nil
        /\ MarshalSDKPosition(iter.s.position) = ret.rec.Position

\* The second call of read on a snapshot iterator has returned a record.
C32_Witness ==
    /\ ret.res = "record"
    /\ rd.n = 2
    /\ ret.rec.Position.mode = ModeSnapshot
    /\ ret.rec.Payload[orderingProperty] > 1

\* C37: when Next fails because the element lacks a configured key
\* property, the iterator is as before the call: its position has not
\* moved and the element is still in the queue.
C37_FailedNextLeavesIterator ==
    [][(rd.pc = "Next" /\ ret'.res = "error") =>
          /\ iter'.s.position = iter.s.position
          /\ iter'.s.records = iter.s.records]_vars

\* C38: the cursor is monotone: a successful Next moves lastProcessedValue
\* to a strictly greater value, whatever order the database returns the
\* rows of a batch in.
C38_CursorStrictlyIncreases ==
    [][(rd.pc = "Next" /\ ret'.res = "record" /\ ~iter.s.position.nil
          /\ ~IsNil(iter.s.position.LastProcessedValue)) =>
          iter'.s.position.LastProcessedValue.num >
              iter.s.position.LastProcessedValue.num]_vars

\* C33: on a finite entity set that nobody mutates, for every batch size
\* and every return order of the database, the snapshot phase ends: the
\* source discards the snapshot iterator and enters the polling-only phase.
C33_SnapshotTerminates == (Phase = "snapshot") ~> (Phase = "polling")

\* Every entity of the graph was inserted after Open had returned: the
\* source was opened on an empty entity set.
OpenedOnEmptySet ==
    /\ driver = "open" /\ pc = "idle"
    /\ \A w \in Entities(graph) : born[w].phase \in {"snapshot", "polling"}

\* C39: a source opened on an empty entity set is not stuck: an entity
\* inserted afterwards is returned as a record by some later Read, with the
\* snapshot enabled or disabled.
C39_NotStuckOnEmptySet ==
    \A v \in Values :
        (OpenedOnEmptySet /\ Exists(graph, v)) ~>
            (\E i \in 1..Len(emitted) : emitted[i].value = v)

\* This step is a Writer.Write that sent a relationship create statement.
SendsRelationshipCreate ==
    /\ IsWriterWrite
    /\ TheAttempt.statements # <<>>
    /\ TheAttempt.statements[1].template = "createRelationship"

\* C34: in a relationship create statement the three groups of parameters
\* do not collide: each parameter of the source pattern is bound to the
\* source descriptor's key value, each parameter of the target pattern to
\* the target descriptor's key value, and each parameter of the
\* relationship's own property clause to the payload's value, also when
\* the payload has a property whose name starts with src_ or trgt_.
C34_ParameterGroupsDistinct ==
    [][SendsRelationshipCreate =>
        LET q == TheAttempt.statements[1]
            params == TheAttempt.params
            payload == TheRecord.Payload.fields
            sourceKey == payload[sourceNodeField].key
            targetKey == payload[targetNodeField].key
        IN  /\ \A n \in DOMAIN q.srcMatch :
                   params[q.srcMatch[n]] = sourceKey[n]
            /\ \A n \in DOMAIN q.trgtMatch :
                   params[q.trgtMatch[n]] = targetKey[n]
            /\ \A n \in DOMAIN q.match : params[q.match[n]] = payload[n]
    ]_vars

\* The statements the latest call of the destination sent to the database.
SentStatements ==
    {call.attempts[i].statements[j] :
        i \in {a \in 1..Len(call.attempts) :
                  call.attempts[a].statements # <<>>},
        j \in {1}}

ReservedFields == {sourceNodeField, targetNodeField}

\* C35: sourceNode and targetNode are never written as entity properties:
\* they are in no property clause of a relationship create statement and
\* in no SET clause of an update statement, for both entity types.
C35_ReservedFieldsNotWritten ==
    \A q \in SentStatements :
        /\ q.template = "createRelationship" =>
               /\ DOMAIN q.match \cap ReservedFields = {}
               /\ DOMAIN q.srcMatch \cap ReservedFields = {}
               /\ DOMAIN q.trgtMatch \cap ReservedFields = {}
        /\ q.template \in {"updateNode", "updateRelationship"} =>
               DOMAIN q.set \cap ReservedFields = {}

\* A create record whose payload named both endpoints and one property
\* has made a relationship, with a statement whose property clause holds
\* that property alone.
C35_Witness ==
    /\ call.op = "Writer.Write"
    /\ call.err = NoErr
    /\ call.changed # {}
    /\ call.records[1].Operation = "create"
    /\ entityType = EntityTypeRelationship
    /\ DOMAIN call.records[1].Payload.fields = ReservedFields \cup {"name"}
    /\ \E q \in SentStatements : DOMAIN q.match = {"name"}

\* This step is a Writer.Write that sent an update statement.
SendsUpdate ==
    /\ IsWriterWrite
    /\ TheAttempt.statements # <<>>
    /\ TheAttempt.statements[1].template \in
           {"updateNode", "updateRelationship"}

\* C36: an update record matches by the values of its key: the parameter
\* bound to each key property of the match clause is the key's value, also
\* when the payload has a field of that name with another value, so only
\* entities the key identifies are updated.
C36_UpdateMatchesByKey ==
    [][SendsUpdate =>
        LET q == TheAttempt.statements[1]
            params == TheAttempt.params
            key == TheRecord.Key.fields
        IN  /\ DOMAIN q.match = DOMAIN key
            /\ \A n \in DOMAIN q.match : params[q.match[n]] = key[n]
            /\ Untouched(EntityIds \ MatchingKey(key))
    ]_vars

\* The parameter names a statement's text refers to.
Referenced(q) ==
    {q.match[n] : n \in DOMAIN q.match}
    \cup {q.set[n] : n \in DOMAIN q.set}
    \cup {q.srcMatch[n] : n \in DOMAIN q.srcMatch}
    \cup {q.trgtMatch[n] : n \in DOMAIN q.trgtMatch}

\* C40: for every statement the writer executes, each parameter name the
\* statement text refers to is a key of the parameter map passed with it
\* (a map, so the name has one value).
C40_ReferencedParametersBound ==
    \A i \in 1..Len(call.attempts) :
        call.attempts[i].statements # <<>> =>
            Referenced(call.attempts[i].statements[1])
                \subseteq DOMAIN call.attempts[i].params

\* A relationship create statement was sent for a payload that has a
\* property with the name of the source pattern's parameter.
C40_Witness ==
    /\ call.op = "Writer.Write"
    /\ call.attempts[1].statements # <<>>
    /\ call.attempts[1].statements[1].template = "createRelationship"
    /\ "src_id" \in DOMAIN call.records[1].Payload.fields
    /\ Referenced(call.attempts[1].statements[1]) = {"src_id", "trgt_id"}

====
